---------------------------- MODULE Spec2Model ----------------------------
(***************************************************************************)
(* A model of the libgpiod-rs device-control core: the Values bit/mask     *)
(* codec (src/src/types.rs), the length checks and fixed-buffer string     *)
(* helpers (src/src/utils.rs), and Chip::new / Chip::request_output /      *)
(* Chip::request_input (src/src/lib.rs).                                   *)
(*                                                                         *)
(* Unsigned integers of 8..64 bits are modelled as the set of their set    *)
(* bit positions, so a 64-bit word is a subset of 0..63: `|`, `&`, `!`     *)
(* and `as` casts become union, intersection, complement and restriction,  *)
(* and no value outgrows the integers of TLC.  Text is a sequence of       *)
(* byte values.                                                            *)
(***************************************************************************)
EXTENDS Integers, Sequences, FiniteSets, TLC

VARIABLES
    overflow_checks, \* build profile: TRUE = debug (arithmetic overflow panics)
    ptr_bytes,       \* size of a reference on the target: 4 or 8 bytes
    abi,             \* cargo feature: "v1" (default) or "v2"
    values,          \* the Values object under test: [bits, mask]
    vlast,           \* the last Values call: its arguments and its outcome
    chips,           \* the Chip objects created so far, in creation order
    fds,             \* the descriptors the process holds open
    requests,        \* the LineValues objects (Inputs / Outputs) created so far
    last,            \* the last Chip call: its arguments, result and syscalls
    panicked         \* TRUE once a call has panicked (the thread unwinds)

vars == <<overflow_checks, ptr_bytes, abi, values, vlast, chips, fds, requests,
          last, panicked>>

chipVars == <<chips, fds, requests, last>>
valueVars == <<values, vlast>>
buildVars == <<overflow_checks, ptr_bytes, abi>>

----------------------------------------------------------------------------
(* Bounds of the model *)

\* bit positions 0..LowBits-1 (and 63) are the in-range bits exercised by set/get
LowBits == 2

\* the longest offset sequence passed to a request
MaxLines == 257

\* the longest consumer label passed to a request, in bytes
MaxLabel == 33

\* how many Chips a run opens, and how many line requests it is granted
MaxChips == 2
MaxRequests == 2

----------------------------------------------------------------------------
(* src/src/types.rs: Values *)

U64 == 0..63

Width == {8, 16, 32, 64}

\* Option<bool>
None == [some |-> FALSE, val |-> FALSE]
Some(v) == [some |-> TRUE, val |-> v]

\* `1 << bit` with a u64 left operand and a u8 shift count.  A count of 64 or
\* more overflows: with overflow checks the shift panics, without them the
\* count is masked to its low six bits.
Shl1(bit, checks) ==
    IF bit < 64 THEN [panic |-> FALSE, word |-> {bit}]
    ELSE IF checks THEN [panic |-> TRUE, word |-> {}]
    ELSE [panic |-> FALSE, word |-> {bit % 64}]

\* Values::default()
Values_default == [bits |-> {}, mask |-> {}]

\* Values::get: [panic, ret]
Values_get(self, bit, checks) ==
    IF bit > 64 THEN [panic |-> FALSE, ret |-> None]
    ELSE LET m == Shl1(bit, checks) IN
         IF m.panic THEN [panic |-> TRUE, ret |-> None]
         ELSE IF self.mask \cap m.word = {} THEN [panic |-> FALSE, ret |-> None]
         ELSE [panic |-> FALSE, ret |-> Some(self.bits \cap m.word # {})]

\* Values::set with `self.mask |= mask` forgotten
Values_set_NoMask(self, bit, val, checks) ==
    IF bit > 64 THEN [panic |-> FALSE, self |-> self]
    ELSE LET m == Shl1(bit, checks) IN
         IF m.panic THEN [panic |-> TRUE, self |-> self]
         ELSE [panic |-> FALSE,
               self |-> [mask |-> self.mask,
                         bits |-> IF val THEN self.bits \cup m.word
                                  ELSE self.bits \cap (U64 \ m.word)]]

\* Values::set: [panic, self]
Values_set(self, bit, val, checks) ==
    IF bit > 64 THEN [panic |-> FALSE, self |-> self]
    ELSE LET m == Shl1(bit, checks) IN
         IF m.panic THEN [panic |-> TRUE, self |-> self]
         ELSE [panic |-> FALSE,
               self |-> [mask |-> self.mask \cup m.word,
                         bits |-> IF val THEN self.bits \cup m.word
                                  ELSE self.bits \cap (U64 \ m.word)]]

\* <$type>::MAX for the unsigned type of w bits
UMax(w) == 0..(w - 1)

\* `x as $type`: truncation to w bits (zero extension when widening)
AsWidth(x, w) == x \cap UMax(w)

\* From<$type> with the mask taken from u64::MAX whatever the width
Values_from_WideMask(w, bits) == [bits |-> AsWidth(bits, 64), mask |-> U64]

\* impl From<$type> for Values
Values_from(w, bits) == [bits |-> AsWidth(bits, 64), mask |-> AsWidth(UMax(w), 64)]

\* impl From<Values> for $type
Values_into(w, v) == AsWidth(v.bits, w)

----------------------------------------------------------------------------
(* Text and byte buffers *)

\* the elements of a sequence
Range(s) == {s[i] : i \in DOMAIN s}

\* n zero bytes
Zeros(n) == [i \in 1..n |-> 0]

\* a fixed buffer of n bytes holding s, zero-filled after it ([0; n] written
\* from its start); s is cut at n bytes
Pad(s, n) == IF Len(s) >= n THEN SubSeq(s, 1, n) ELSE s \o Zeros(n - Len(s))

\* format!("{}", n) for an unsigned integer: its decimal digits in ASCII
RECURSIVE Dec(_)
Dec(n) == IF n < 10 THEN <<48 + n>> ELSE Dec(n \div 10) \o <<48 + (n % 10)>>

\* a UTF-8 continuation byte
Cont(b) == b \in 128..191

\* the length of the UTF-8 sequence the byte b starts; 0 if it starts none
Utf8Len(b) ==
    IF b < 128 THEN 1
    ELSE IF b \in 194..223 THEN 2
    ELSE IF b \in 224..239 THEN 3
    ELSE IF b \in 240..244 THEN 4
    ELSE 0

\* the bytes that may follow the lead byte b directly
Utf8Second(b) ==
    IF b = 224 THEN 160..191
    ELSE IF b = 237 THEN 128..159
    ELSE IF b = 240 THEN 144..191
    ELSE IF b = 244 THEN 128..143
    ELSE 128..191

\* str::from_utf8(s).is_ok(): every byte starts a well-formed sequence that
\* fits, or continues the sequence started one to three bytes before it
Utf8Valid(s) ==
    \A i \in DOMAIN s :
        IF Cont(s[i])
        THEN \E d \in 1..3 :
                 /\ i - d >= 1
                 /\ Utf8Len(s[i - d]) > d
                 /\ \A e \in 1..(d - 1) : Cont(s[i - e])
        ELSE /\ Utf8Len(s[i]) >= 1
             /\ i + Utf8Len(s[i]) - 1 <= Len(s)
             /\ Utf8Len(s[i]) >= 2 => s[i + 1] \in Utf8Second(s[i])
             /\ \A e \in 2..(Utf8Len(s[i]) - 1) : Cont(s[i + e])

\* str::trim_end_matches('\0'): s up to its last byte that is not NUL
TrimNul(s) ==
    LET kept == {i \in DOMAIN s : s[i] # 0}
    IN  IF kept = {} THEN <<>>
        ELSE SubSeq(s, 1, CHOOSE i \in kept : \A j \in kept : j <= i)

----------------------------------------------------------------------------
(* src/src/utils.rs *)

\* io::Result: what a call returns (or that it panicked instead of returning)
Ok == "Ok"
Err == "Err"
Panic == "Panic"

\* io::ErrorKind of locally made errors; an OS error is named by its errno
InvalidInput == "InvalidInput"
InvalidData == "InvalidData"
Other == "Other"
OsErrors == {"ENOENT", "EACCES", "EIO", "EBUSY", "EINVAL", "ENOTTY"}

\* safe_get_str: [ok, str]
safe_get_str(src) ==
    IF Utf8Valid(src) THEN [ok |-> TRUE, str |-> TrimNul(src)]
    ELSE [ok |-> FALSE, str |-> <<>>]

\* check_len(slice, val): slice.len() < size_of_val(val)
check_len(slice_len, size_of_val) == slice_len < size_of_val

\* check_len_str(slice, val): slice.as_bytes().len() + 1 < size_of_val(val)
check_len_str(slice_len, size_of_val) == slice_len + 1 < size_of_val

\* <[T]>::copy_from_slice: panics unless both slices have the same length
copy_from_slice_panics(dst_len, src) == Len(src) # dst_len

\* safe_set_str(dst: &mut [u8; N], src): [result, dst].  check_len_str is handed
\* `&dst`, a reference to the reference `dst`, so size_of_val is the size of a
\* reference.  copy_from_slice then needs src to be N bytes long, and the
\* terminator is written at index src.len().
safe_set_str(N, src, ref_bytes) ==
    IF ~check_len_str(Len(src), ref_bytes)
    THEN [result |-> Err, err |-> InvalidInput, dst |-> Zeros(N)]
    ELSE IF copy_from_slice_panics(N, src)
    THEN [result |-> Panic, err |-> "", dst |-> Zeros(N)]
    ELSE IF Len(src) >= N  \* dst[src.len()] = 0 is out of bounds
    THEN [result |-> Panic, err |-> "", dst |-> Zeros(N)]
    ELSE [result |-> Ok, err |-> "", dst |-> [src EXCEPT ![Len(src) + 1] = 0]]

----------------------------------------------------------------------------
(* The file system and kernel a call of Chip::new meets *)

\* makedev(major, minor) of Linux for major < 4096 (12 bits of major and the
\* low 8 bits of minor in bits 8..19 and 0..7, the rest of minor from bit 20)
MakeDev(major, minor) ==
    (minor \div 256) * 1048576 + (major % 4096) * 256 + (minor % 256)

\* the "<major>:<minor>" the kernel writes into /sys/bus/gpio/devices/<n>/dev
DevText(d) == Dec(d.major) \o <<58>> \o Dec(d.minor)

Devices == {[major |-> 254, minor |-> 0], [major |-> 254, minor |-> 1],
            [major |-> 254, minor |-> 10]}

\* contents of the sysfs `dev` file tried for a node of device d
Records(d) ==
    {DevText(e) \o <<10>> : e \in Devices}      \* a record, of d or another
    \cup {DevText(d),                            \* no line feed
          <<>>, <<10>>, <<255, 255, 10>>}         \* empty, blank, not UTF-8

\* what GPIO_GET_CHIPINFO_IOCTL does: it fails, or fills name[32], label[32]
\* and lines
ChipInfo(name, label, lines) ==
    [ok |-> TRUE, errno |-> "", name |-> Pad(name, 32), label |-> Pad(label, 32),
     lines |-> lines]

NoInfo ==
    [ok |-> FALSE, errno |-> "ENOTTY", name |-> Zeros(32), label |-> Zeros(32),
     lines |-> 0]

ChipInfos ==
    {NoInfo,
     ChipInfo(<<103, 48>>, <<>>, 4),
     ChipInfo(<<103, 49>>, <<112, 105>>, 54),
     ChipInfo(<<103, 255>>, <<>>, 4)}

\* a path as Chip::new finds it: whether open(O_RDWR) and lstat succeed, the
\* file type, its device number, whether the file name is UTF-8, and the sysfs
\* `dev` file of its basename
GpioNode(d, rec) ==
    [open_err |-> "", lstat_err |-> "", is_chr |-> TRUE, dev |-> d,
     name_utf8 |-> TRUE, sysfs_is_file |-> TRUE, sysfs_open_err |-> "",
     sysfs_read_err |-> "", record |-> rec]

PlainNode == GpioNode([major |-> 254, minor |-> 0], <<50, 53, 52, 58, 48, 10>>)

Nodes ==
    UNION {{GpioNode(d, rec) : rec \in Records(d)} : d \in Devices}
    \cup {[PlainNode EXCEPT !.open_err = e] : e \in {"ENOENT", "EACCES"}}
    \cup {[PlainNode EXCEPT !.lstat_err = "ENOENT"]}
    \cup {[PlainNode EXCEPT !.is_chr = FALSE]}
    \cup {[PlainNode EXCEPT !.is_chr = FALSE, !.sysfs_is_file = FALSE]}
    \cup {[PlainNode EXCEPT !.name_utf8 = FALSE]}
    \cup {[PlainNode EXCEPT !.sysfs_is_file = FALSE]}
    \cup {[PlainNode EXCEPT !.sysfs_open_err = "EACCES"]}
    \cup {[PlainNode EXCEPT !.sysfs_read_err = "EIO"]}

\* the lowest descriptor number not in use (0, 1, 2 are the standard streams)
NewFd(used) == CHOOSE n \in 3..(3 + Cardinality(used)) :
                   n \notin used /\ \A m \in 3..(n - 1) : m \in used

Sys(call, fd) == [call |-> call, fd |-> fd]

----------------------------------------------------------------------------
(* src/src/lib.rs: Chip::new and Chip::is_gpiochip_cdev *)

LINE_FEED == 10

\* sysfs_rdev after fd.read(&mut sysfs_rdev): the first 16 bytes of the file
\* over [0; 16]
sysfs_rdev(node) == Pad(node.record, 16)

\* sysfs_rdev.iter().position(|&x| x == LINE_FEED).unwrap_or(len - 1),
\* counted from 0
lf_pos(buf) ==
    IF \E i \in 1..Len(buf) : buf[i] = LINE_FEED
    THEN (CHOOSE i \in 1..Len(buf) :
              buf[i] = LINE_FEED /\ \A j \in 1..(i - 1) : buf[j] # LINE_FEED) - 1
    ELSE Len(buf) - 1

\* format!("{}:{}", rdev >> 8, rdev & 0xFF)
file_rdev(rdev) == Dec(rdev \div 256) \o <<58>> \o Dec(rdev % 256)

\* a variant that keeps the byte before the line feed: &sysfs_rdev[0..lf_pos]
slice_end_AtLineFeed(pos) == pos

\* the end of the range in &sysfs_rdev[0..lf_pos - 1]
slice_end(pos) == pos - 1

\* &sysfs_rdev[0..lf_pos - 1]: [panic, bytes].  lf_pos - 1 with lf_pos = 0
\* panics with overflow checks and wraps to usize::MAX without them, which is
\* past the end of the 16-byte array, so the slicing panics
sysfs_slice(buf) ==
    LET end == slice_end(lf_pos(buf))
    IN  IF end < 0 \/ end > Len(buf) THEN [panic |-> TRUE, bytes |-> <<>>]
        ELSE [panic |-> FALSE, bytes |-> SubSeq(buf, 1, end)]

\* the test that makes is_gpiochip_cdev return Err("Unmatched device versions")
rdev_rejected(sysfs_text, file_text) == sysfs_text = file_text

\* a variant without the file type test: every path counts as a character
\* device
is_char_device_Any(node) == TRUE

\* file_metadata.file_type().is_char_device()
is_char_device(node) == node.is_chr

\* Chip::is_gpiochip_cdev(path): [result, err, syscalls]; fd2 is the number
\* the descriptor of the sysfs file gets
is_gpiochip_cdev(node, fd2) ==
    LET s1 == <<Sys("lstat", 0)>>
        s2 == s1 \o <<Sys("stat", 0)>>
        s3 == s2 \o <<Sys("open", fd2)>>
        s4 == s3 \o <<Sys("read", fd2), Sys("close", fd2)>>
        buf == sysfs_rdev(node)
        pos == lf_pos(buf)
        slice == sysfs_slice(buf)
        text == safe_get_str(slice.bytes)
        R(result, err, sys) == [result |-> result, err |-> err, syscalls |-> sys]
    IN  IF node.lstat_err # "" THEN R(Err, node.lstat_err, s1)
        ELSE IF ~is_char_device(node) THEN R(Err, InvalidInput, s1)
        ELSE IF ~node.name_utf8 THEN R(Panic, "", s1)  \* to_str().unwrap()
        ELSE IF ~node.sysfs_is_file THEN R(Err, InvalidInput, s2)
        ELSE IF node.sysfs_open_err # "" THEN R(Err, node.sysfs_open_err, s2)
        ELSE IF node.sysfs_read_err # ""
             THEN R(Err, node.sysfs_read_err, s3 \o <<Sys("read", fd2), Sys("close", fd2)>>)
        ELSE IF slice.panic THEN R(Panic, "", s4)
        ELSE IF ~text.ok THEN R(Err, InvalidData, s4)
        ELSE IF rdev_rejected(text.str, file_rdev(MakeDev(node.dev.major, node.dev.minor)))
             THEN R(Err, Other, s4)
        ELSE R(Ok, "", s4)

GET_CHIPINFO == "ioctl GPIO_GET_CHIPINFO"

\* Chip::new(path): [result, err, syscalls, chip]; info is what the ioctl does
\* when it is reached, fd the number the opened device gets.  Every return
\* but the last drops `dev`, which closes it.
Chip_new(node, info, fd) ==
    LET NoChip == [name |-> <<>>, label |-> <<>>, num_lines |-> 0, fd |-> fd,
                   state |-> "Closed"]
        s0 == <<Sys("open", fd)>>
        cdev == is_gpiochip_cdev(node, fd + 1)
        s1 == s0 \o cdev.syscalls
        s2 == s1 \o <<Sys(GET_CHIPINFO, fd)>>
        name == safe_get_str(info.name)
        label == safe_get_str(info.label)
        close == <<Sys("close", fd)>>
        R(result, err, sys) ==
            [result |-> result, err |-> err, syscalls |-> sys, chip |-> NoChip]
    IN  IF node.open_err # "" THEN R(Err, node.open_err, <<Sys("open", -1)>>)
        ELSE IF cdev.result # Ok THEN R(cdev.result, cdev.err, s1 \o close)
        ELSE IF ~info.ok THEN R(Err, info.errno, s2 \o close)
        ELSE IF ~name.ok THEN R(Err, InvalidData, s2 \o close)
        ELSE IF ~label.ok THEN R(Err, InvalidData, s2 \o close)
        ELSE [result |-> Ok, err |-> "", syscalls |-> s2,
              chip |-> [name |-> name.str, label |-> label.str,
                        num_lines |-> info.lines, fd |-> fd, state |-> "Open"]]

----------------------------------------------------------------------------
(* src/src/raw/v1.rs, src/src/raw/v2.rs: sizes and request flags.  A flag    *)
(* word is the set of its set bit positions: 1 << n is {n}.                  *)

GPIOHANDLES_MAX == 64
GPIO_LINES_MAX == 64
GPIO_MAX_NAME_SIZE == 32

\* size_of::<u32>(), the element size of line_offsets / offsets
SizeOfU32 == 4

GPIOHANDLE_REQUEST_INPUT == {0}
GPIOHANDLE_REQUEST_OUTPUT == {1}
GPIOHANDLE_REQUEST_ACTIVE_LOW == {2}
GPIOHANDLE_REQUEST_OPEN_DRAIN == {3}
GPIOHANDLE_REQUEST_OPEN_SOURCE == {4}
GPIOHANDLE_REQUEST_BIAS_PULL_UP == {5}
GPIOHANDLE_REQUEST_BIAS_PULL_DOWN == {6}
GPIOHANDLE_REQUEST_BIAS_DISABLE == {7}

GPIO_LINE_FLAG_ACTIVE_LOW == {1}
GPIO_LINE_FLAG_INPUT == {2}
GPIO_LINE_FLAG_OUTPUT == {3}
GPIO_LINE_FLAG_EDGE_RISING == {4}
GPIO_LINE_FLAG_EDGE_FALLING == {5}
GPIO_LINE_FLAG_EDGE_BOTH == GPIO_LINE_FLAG_EDGE_RISING \cup GPIO_LINE_FLAG_EDGE_FALLING
GPIO_LINE_FLAG_OPEN_DRAIN == {6}
GPIO_LINE_FLAG_OPEN_SOURCE == {7}
GPIO_LINE_FLAG_BIAS_PULL_UP == {8}
GPIO_LINE_FLAG_BIAS_PULL_DOWN == {9}
GPIO_LINE_FLAG_BIAS_DISABLED == {10}

----------------------------------------------------------------------------
(* src/src/types.rs: the option enums *)

Direction == {"Input", "Output"}
Active == {"Low", "High"}
EdgeDetect == {"Disable", "Rising", "Falling", "Both"}
Bias == {"Disable", "PullUp", "PullDown"}
Drive == {"PushPull", "OpenDrain", "OpenSource"}

----------------------------------------------------------------------------
(* src/src/lib.rs: LineValues::new, Chip::request_output, Chip::request_input *)

\* request.flags as the v1 blocks build it; request_input has no drive match
request_flags_v1(dir, active, bias, drive) ==
    (IF dir = "Output" THEN GPIOHANDLE_REQUEST_OUTPUT ELSE GPIOHANDLE_REQUEST_INPUT)
    \cup (IF active = "Low" THEN GPIOHANDLE_REQUEST_ACTIVE_LOW ELSE {})
    \cup (CASE bias = "PullUp" -> GPIOHANDLE_REQUEST_BIAS_PULL_UP
            [] bias = "PullDown" -> GPIOHANDLE_REQUEST_BIAS_PULL_DOWN
            [] bias = "Disable" -> GPIOHANDLE_REQUEST_BIAS_DISABLE)
    \cup (IF dir = "Output"
          THEN CASE drive = "OpenDrain" -> GPIOHANDLE_REQUEST_OPEN_DRAIN
                 [] drive = "OpenSource" -> GPIOHANDLE_REQUEST_OPEN_SOURCE
                 [] OTHER -> {}
          ELSE {})

\* a variant of the drive match with the two flags exchanged
drive_flags_v2_Exchanged(drive) ==
    CASE drive = "OpenDrain" -> GPIO_LINE_FLAG_OPEN_SOURCE
      [] drive = "OpenSource" -> GPIO_LINE_FLAG_OPEN_DRAIN
      [] OTHER -> {}

\* match drive { OpenDrain => flags |= OPEN_DRAIN, OpenSource => flags |=
\* OPEN_SOURCE, _ => () } of the v2 block of request_output
drive_flags_v2(drive) ==
    CASE drive = "OpenDrain" -> GPIO_LINE_FLAG_OPEN_DRAIN
      [] drive = "OpenSource" -> GPIO_LINE_FLAG_OPEN_SOURCE
      [] OTHER -> {}

\* request.config.flags as the v2 blocks build it
request_flags_v2(dir, active, edge, bias, drive) ==
    (IF dir = "Output" THEN GPIO_LINE_FLAG_OUTPUT ELSE GPIO_LINE_FLAG_INPUT)
    \cup (IF active = "Low" THEN GPIO_LINE_FLAG_ACTIVE_LOW ELSE {})
    \cup (CASE edge = "Rising" -> GPIO_LINE_FLAG_EDGE_RISING
            [] edge = "Falling" -> GPIO_LINE_FLAG_EDGE_FALLING
            [] edge = "Both" -> GPIO_LINE_FLAG_EDGE_BOTH
            [] OTHER -> {})
    \cup (CASE bias = "PullUp" -> GPIO_LINE_FLAG_BIAS_PULL_UP
            [] bias = "PullDown" -> GPIO_LINE_FLAG_BIAS_PULL_DOWN
            [] bias = "Disable" -> GPIO_LINE_FLAG_BIAS_DISABLED)
    \cup (IF dir = "Output" THEN drive_flags_v2(drive) ELSE {})

GET_LINEHANDLE == "ioctl GPIO_GET_LINEHANDLE"
GET_LINE == "ioctl GPIO_V2_GET_LINE"
GET_LINEINFO == "ioctl GPIO_GET_LINEINFO"
GET_LINEINFO_V2 == "ioctl GPIO_V2_GET_LINEINFO"
GET_LINE_VALUES == "ioctl GPIOHANDLE_GET_LINE_VALUES"
SET_LINE_VALUES == "ioctl GPIOHANDLE_SET_LINE_VALUES"
LINE_GET_VALUES == "ioctl GPIO_V2_LINE_GET_VALUES"
LINE_SET_VALUES == "ioctl GPIO_V2_LINE_SET_VALUES"
IoctlCalls ==
    {GET_CHIPINFO, GET_LINEHANDLE, GET_LINE, GET_LINEINFO, GET_LINEINFO_V2,
     GET_LINE_VALUES, SET_LINE_VALUES, LINE_GET_VALUES, LINE_SET_VALUES}

\* LineValues::new: the index map is collected from (line, position) pairs,
\* so a later position of the same line replaces an earlier one; positions are
\* cast to BitId (u8)
LineValues_new(chip_name, offset, fd, dir) ==
    [chip_name |-> chip_name,
     offset |-> offset,
     index |-> [l \in Range(offset) |->
                  ((CHOOSE i \in DOMAIN offset :
                        offset[i] = l /\ \A j \in DOMAIN offset :
                                             offset[j] = l => j <= i) - 1) % 256],
     fd |-> fd,
     dir |-> dir,
     state |-> "Open"]

NoLineValues == LineValues_new(<<>>, <<>>, -1, "Input")

\* the request structure no ioctl was handed
NoRequest == [offsets |-> <<>>, num_lines |-> 0, flags |-> {}, consumer |-> <<>>]

\* the body shared by Chip::request_output (dir = "Output") and
\* Chip::request_input (dir = "Input"), in the build for `gen`:
\* [result, err, syscalls, request, lv].  kernel is what the request ioctl
\* does when it is reached, newfd the descriptor it grants.
Chip_request(gen, ref_bytes, dir, chip, lines, active, edge, bias, drive, label, kernel, newfd) ==
    LET max == IF gen = "v2" THEN GPIO_LINES_MAX ELSE GPIOHANDLES_MAX
        set == safe_set_str(GPIO_MAX_NAME_SIZE, label, ref_bytes)
        request == [offsets |-> lines,
                    num_lines |-> Len(lines),
                    flags |-> IF gen = "v2"
                              THEN request_flags_v2(dir, active, edge, bias, drive)
                              ELSE request_flags_v1(dir, active, bias, drive),
                    consumer |-> set.dst]
        ioctl == Sys(IF gen = "v2" THEN GET_LINE ELSE GET_LINEHANDLE, chip.fd)
        R(result, err, sys, req) ==
            [result |-> result, err |-> err, syscalls |-> sys, request |-> req,
             lv |-> NoLineValues]
    IN  \* check_len(line_offsets, &request.offsets): size_of_val of the array
        IF ~check_len(Len(lines), max * SizeOfU32)
        THEN R(Err, InvalidInput, <<>>, NoRequest)
        \* request.offsets.copy_from_slice(line_offsets)
        ELSE IF copy_from_slice_panics(max, lines) THEN R(Panic, "", <<>>, NoRequest)
        ELSE IF set.result # Ok THEN R(set.result, set.err, <<>>, NoRequest)
        ELSE IF ~kernel.ok THEN R(Err, kernel.errno, <<ioctl>>, request)
        ELSE [result |-> Ok, err |-> "", syscalls |-> <<ioctl>>, request |-> request,
              lv |-> LineValues_new(chip.name, lines, newfd, dir)]

Chip_request_output(gen, ref_bytes, chip, lines, active, edge, bias, drive, label, kernel, newfd) ==
    Chip_request(gen, ref_bytes, "Output", chip, lines, active, edge, bias, drive,
                 label, kernel, newfd)

Chip_request_input(gen, ref_bytes, chip, lines, active, edge, bias, label, kernel, newfd) ==
    Chip_request(gen, ref_bytes, "Input", chip, lines, active, edge, bias,
                 "PushPull", label, kernel, newfd)

----------------------------------------------------------------------------
(* src/src/lib.rs: LineValues::get_values and LineValues::set_values *)

\* raw::v1::GpioHandleData::default().values: GPIOHANDLES_MAX bytes, indexed
\* from 0
GpioHandleData_default == [i \in 0..(GPIOHANDLES_MAX - 1) |-> 0]

\* what a caller may name as T in get_values::<T>() and pass to set_values
IntTypes == {"u8", "u16", "u32", "u64"}
ValueTypes == {"Values"} \cup IntTypes

\* the width of an integer type
BitsOf(T) == CASE T = "u8" -> 8 [] T = "u16" -> 16 [] T = "u32" -> 32 [] T = "u64" -> 64

\* T::from(values) for T: From<Values>; an integer is the set of its set bits
Values_to(T, v) == IF T = "Values" THEN v ELSE Values_into(BitsOf(T), v)

\* values.into() for an argument of type T: Into<Values>; an integer argument
\* is carried in x.bits
Values_of(T, x) == IF T = "Values" THEN x ELSE Values_from(BitsOf(T), x.bits)

\* a variant of the v1 loop that runs over the whole array, not the lines
get_values_len_WholeArray(self) == GPIOHANDLES_MAX

\* self.offset.len(), the end of the loops of the v1 blocks
get_values_len(self) == Len(self.offset)

\* output_data.set(index as _, data.values[index] != 0), one pass of the loop
\* of the v1 block: [panic, self].  data.values[index] is out of bounds from
\* GPIOHANDLES_MAX on.
get_values_step(index, data, output_data, checks) ==
    IF index >= GPIOHANDLES_MAX THEN [panic |-> TRUE, self |-> output_data]
    ELSE Values_set(output_data, index % 256, data[index] # 0, checks)

\* for index in lo..hi { .. } from the state st = [panic, self], the passes in
\* order; the range is walked in halves, which keeps the evaluation shallow
RECURSIVE get_values_loop(_, _, _, _, _)
get_values_loop(lo, hi, data, st, checks) ==
    IF st.panic \/ lo >= hi THEN st
    ELSE IF hi = lo + 1 THEN get_values_step(lo, data, st.self, checks)
    ELSE get_values_loop((lo + hi) \div 2, hi, data,
                         get_values_loop(lo, (lo + hi) \div 2, data, st, checks),
                         checks)

\* LineValues::get_values::<T>(): [result, err, syscalls, passed, ret].
\* kernel is what the ioctl does: kernel.data the bytes it leaves in
\* GpioHandleData (v1), kernel.lv the GpioLineValues it leaves (v2).
LineValues_get_values(gen, self, T, kernel, checks) ==
    LET ioctl == Sys(IF gen = "v2" THEN LINE_GET_VALUES ELSE GET_LINE_VALUES, self.fd)
        passed == IF gen = "v2" THEN Values_default ELSE GpioHandleData_default
        loop == get_values_loop(0, get_values_len(self), kernel.data,
                                [panic |-> FALSE, self |-> Values_default], checks)
        R(result, err, ret) ==
            [result |-> result, err |-> err, syscalls |-> <<ioctl>>,
             passed |-> passed, ret |-> ret]
    IN  IF ~kernel.ok THEN R(Err, kernel.errno, {})
        ELSE IF gen = "v2" THEN R(Ok, "", Values_to(T, kernel.lv))
        ELSE IF loop.panic THEN R(Panic, "", {})
        ELSE R(Ok, "", Values_to(T, loop.self))

\* a variant of the pass that reads the bit without its mask:
\* data.values[index] = (values.bits >> index) & 1
set_values_step_Unmasked(index, values_, data, checks) ==
    IF index >= GPIOHANDLES_MAX THEN [panic |-> TRUE, data |-> data]
    ELSE [panic |-> FALSE,
          data |-> [data EXCEPT ![index] = IF index \in values_.bits THEN 1 ELSE 0]]

\* data.values[index] = values.get(index as _).unwrap_or(false) as _, one
\* pass of the loop of the v1 block: [panic, data]
set_values_step(index, values_, data, checks) ==
    LET g == Values_get(values_, index % 256, checks)
        byte == IF g.ret = Some(TRUE) THEN 1 ELSE 0
    IN  IF g.panic \/ index >= GPIOHANDLES_MAX THEN [panic |-> TRUE, data |-> data]
        ELSE [panic |-> FALSE, data |-> [data EXCEPT ![index] = byte]]

\* for index in lo..hi { .. } from the state st = [panic, data]
RECURSIVE set_values_loop(_, _, _, _, _)
set_values_loop(lo, hi, values_, st, checks) ==
    IF st.panic \/ lo >= hi THEN st
    ELSE IF hi = lo + 1 THEN set_values_step(lo, values_, st.data, checks)
    ELSE set_values_loop((lo + hi) \div 2, hi, values_,
                         set_values_loop(lo, (lo + hi) \div 2, values_, st, checks),
                         checks)

\* LineValues::set_values(values) for an argument x of type T:
\* [result, err, syscalls, passed]; passed is the structure the ioctl is handed
LineValues_set_values(gen, self, T, x, kernel, checks) ==
    LET arg == Values_of(T, x)
        ioctl == Sys(IF gen = "v2" THEN LINE_SET_VALUES ELSE SET_LINE_VALUES, self.fd)
        loop == set_values_loop(0, get_values_len(self), arg,
                                [panic |-> FALSE, data |-> GpioHandleData_default],
                                checks)
        passed == IF gen = "v2" THEN arg ELSE loop.data
        R(result, err, sys) ==
            [result |-> result, err |-> err, syscalls |-> sys, passed |-> passed]
    IN  IF gen # "v2" /\ loop.panic THEN R(Panic, "", <<>>)
        ELSE IF ~kernel.ok THEN R(Err, kernel.errno, <<ioctl>>)
        ELSE R(Ok, "", <<ioctl>>)

\* Outputs::chip_name, and Inputs::chip_name alike: &self.0.chip_name
Outputs_chip_name(self) == self.chip_name

\* a variant of lines() that lists the offsets last first
Outputs_lines_Reversed(self) ==
    [i \in DOMAIN self.offset |-> self.offset[Len(self.offset) + 1 - i]]

\* Outputs::lines, and Inputs::lines alike: &self.0.offset
Outputs_lines(self) == self.offset

----------------------------------------------------------------------------
(* src/src/lib.rs: LineValues::read_event, read_event_async, make_event *)

GPIOEVENT_EVENT_RISING_EDGE == 1
GPIOEVENT_EVENT_FALLING_EDGE == 2
GPIO_LINE_EVENT_RISING_EDGE == 1
GPIO_LINE_EVENT_FALLING_EDGE == 2

Edge == {"Rising", "Falling"}

\* the Event no call returned
NoEvent == [line |-> 0, edge |-> "", time |-> [secs |-> 0, nanos |-> 0]]

NANOS_PER_SEC == 1000000000

\* SystemTime::UNIX_EPOCH + Duration::from_nanos(nanos): the whole seconds and
\* the nanoseconds of the second since the epoch
from_nanos(nanos) ==
    [secs |-> nanos \div NANOS_PER_SEC, nanos |-> nanos % NANOS_PER_SEC]

\* size_of::<raw::v1::GpioEventData>(): u64, u32 and the padding of the u64's
\* alignment; size_of::<raw::v2::GpioLineEvent>(): u64 and ten u32
SizeOfGpioEventData == 16
SizeOfGpioLineEvent == 48

\* the length of the slice event.as_mut() that read is given
event_size(gen) == IF gen = "v2" THEN SizeOfGpioLineEvent ELSE SizeOfGpioEventData

\* the event structure after a read that left the first n bytes of `record`
\* in event.as_mut(): the timestamp is bytes 0..8, the id bytes 8..12 and (v2)
\* the offset bytes 12..16 of the structure, which was its default before
read_buffer(record, n) ==
    [timestamp |-> IF n >= 8 THEN record.timestamp ELSE 0,
     id |-> IF n >= 12 THEN record.id ELSE 0,
     offset |-> IF n >= 16 THEN record.offset ELSE 0]

\* raw::v1::GpioEventData::default() / raw::v2::GpioLineEvent::default()
GpioLineEvent_default == [timestamp |-> 0, id |-> 0, offset |-> 0]

\* a variant of line_bit that answers the raw offset of a requested line
line_bit_RawOffset(self, line) ==
    IF line \in DOMAIN self.index THEN Some(line) ELSE None

\* LineValues::line_bit(line)
line_bit(self, line) ==
    IF line \in DOMAIN self.index THEN Some(self.index[line]) ELSE None

\* the edge match of a variant of make_event that takes every code that is
\* not rising for falling
event_edge_NoDefault(rising, falling, id) ==
    IF id = rising THEN Some("Rising") ELSE Some("Falling")

\* match event.id { RISING => Edge::Rising, FALLING => Edge::Falling,
\*                  _ => return Err(invalid_data()) }
event_edge(rising, falling, id) ==
    IF id = rising THEN Some("Rising")
    ELSE IF id = falling THEN Some("Falling")
    ELSE None

\* LineValues::make_event(line, event) of the v1 build: [result, err, event]
make_event_v1(self, line, event) ==
    LET edge == event_edge(GPIOEVENT_EVENT_RISING_EDGE,
                           GPIOEVENT_EVENT_FALLING_EDGE, event.id)
    IN  IF edge = None THEN [result |-> Err, err |-> InvalidData, event |-> NoEvent]
        ELSE [result |-> Ok, err |-> "",
              event |-> [line |-> line, edge |-> edge.val,
                         time |-> from_nanos(event.timestamp)]]

\* LineValues::make_event(event) of the v2 build: [result, err, event]
make_event_v2(self, event) ==
    LET line == line_bit(self, event.offset)
        edge == event_edge(GPIO_LINE_EVENT_RISING_EDGE,
                           GPIO_LINE_EVENT_FALLING_EDGE, event.id)
    IN  IF line = None THEN [result |-> Err, err |-> InvalidData, event |-> NoEvent]
        ELSE IF edge = None
        THEN [result |-> Err, err |-> InvalidData, event |-> NoEvent]
        ELSE [result |-> Ok, err |-> "",
              event |-> [line |-> line.val, edge |-> edge.val,
                         time |-> from_nanos(event.timestamp)]]

\* LineValues::read_event(): [result, err, syscalls, event].  read is what
\* self.file.read does: it fails, or leaves read.event in the buffer (the
\* default where it read nothing).  The v1 block calls
\* self.make_event(line, event) with a `line` it does not bind; line_v1
\* stands for the value make_event is given.
LineValues_read_event(gen, self, read, line_v1) ==
    LET made == IF gen = "v2" THEN make_event_v2(self, read.event)
                ELSE make_event_v1(self, line_v1, read.event)
        sys == <<Sys("read", self.fd)>>
    IN  IF ~read.ok
        THEN [result |-> Err, err |-> read.errno, syscalls |-> sys, event |-> NoEvent]
        ELSE [result |-> made.result, err |-> made.err, syscalls |-> sys,
              event |-> made.event]

\* a variant of read_event_async without core::mem::forget(file): the
\* wrapper is dropped at the end of the call and closes the descriptor
forgets_file_Dropping(self) == FALSE

\* core::mem::forget(file) after the awaited read
forgets_file(self) == TRUE

Cancelled == "Cancelled"

\* LineValues::read_event_async() of the tokio and async-std builds:
\* [result, err, syscalls, event].  The v1 block is todo!().  In the v2
\* block `file` wraps the descriptor of self.file; when the future is
\* dropped at the await (cancelled = TRUE) `file` is dropped with it and
\* closes the descriptor; when the read completes `file` is forgotten.
LineValues_read_event_async(gen, self, read, cancelled) ==
    LET made == make_event_v2(self, read.event)
        close == IF forgets_file(self) THEN <<>> ELSE <<Sys("close", self.fd)>>
        sys == <<Sys("read", self.fd)>> \o close
    IN  IF gen # "v2"
        THEN [result |-> Panic, err |-> "", syscalls |-> <<>>, event |-> NoEvent]
        ELSE IF cancelled
        THEN [result |-> Cancelled, err |-> "",
              syscalls |-> <<Sys("close", self.fd)>>, event |-> NoEvent]
        ELSE IF ~read.ok
        THEN [result |-> Err, err |-> read.errno, syscalls |-> sys, event |-> NoEvent]
        ELSE [result |-> made.result, err |-> made.err, syscalls |-> sys,
              event |-> made.event]

----------------------------------------------------------------------------
(* src/src/lib.rs: Chip::line_info *)

GPIOLINE_FLAG_KERNEL == {0}
GPIOLINE_FLAG_IS_OUT == {1}
GPIOLINE_FLAG_ACTIVE_LOW == {2}
GPIOLINE_FLAG_OPEN_DRAIN == {3}
GPIOLINE_FLAG_OPEN_SOURCE == {4}
GPIOLINE_FLAG_BIAS_PULL_UP == {5}
GPIOLINE_FLAG_BIAS_PULL_DOWN == {6}
GPIO_LINE_FLAG_USED == {0}

\* utils::is_set(flags, flag): flags & flag == flag
is_set(flags, flag) == flags \cap flag = flag

\* the LineInfo no call returned
NoLineInfo ==
    [direction |-> "", active |-> "", edge |-> "", used |-> FALSE, bias |-> "",
     drive |-> "", name |-> <<>>, consumer |-> <<>>]

\* match (is_set(a), is_set(b)) { (true, false) => x, (false, true) => y, _ => z }
match_pair(a, b, x, y, z) ==
    IF a /\ ~b THEN x ELSE IF ~a /\ b THEN y ELSE z

\* the fields Chip::line_info decodes from gpio_line_info.flags in the v1 block
line_info_v1(flags) ==
    [direction |-> IF is_set(flags, GPIOLINE_FLAG_IS_OUT) THEN "Output" ELSE "Input",
     active |-> IF is_set(flags, GPIOLINE_FLAG_ACTIVE_LOW) THEN "Low" ELSE "High",
     edge |-> "Disable",
     used |-> is_set(flags, GPIOLINE_FLAG_KERNEL),
     bias |-> match_pair(is_set(flags, GPIOLINE_FLAG_BIAS_PULL_UP),
                         is_set(flags, GPIOLINE_FLAG_BIAS_PULL_DOWN),
                         "PullUp", "PullDown", "Disable"),
     drive |-> match_pair(is_set(flags, GPIOLINE_FLAG_OPEN_DRAIN),
                          is_set(flags, GPIOLINE_FLAG_OPEN_SOURCE),
                          "OpenDrain", "OpenSource", "PushPull")]

\* the same in the v2 block
line_info_v2(flags) ==
    [direction |-> IF is_set(flags, GPIO_LINE_FLAG_OUTPUT) THEN "Output" ELSE "Input",
     active |-> IF is_set(flags, GPIO_LINE_FLAG_ACTIVE_LOW) THEN "Low" ELSE "High",
     edge |-> IF is_set(flags, GPIO_LINE_FLAG_EDGE_RISING)
                 /\ is_set(flags, GPIO_LINE_FLAG_EDGE_FALLING) THEN "Both"
              ELSE match_pair(is_set(flags, GPIO_LINE_FLAG_EDGE_RISING),
                              is_set(flags, GPIO_LINE_FLAG_EDGE_FALLING),
                              "Rising", "Falling", "Disable"),
     used |-> is_set(flags, GPIO_LINE_FLAG_USED),
     bias |-> match_pair(is_set(flags, GPIO_LINE_FLAG_BIAS_PULL_UP),
                         is_set(flags, GPIO_LINE_FLAG_BIAS_PULL_DOWN),
                         "PullUp", "PullDown", "Disable"),
     drive |-> match_pair(is_set(flags, GPIO_LINE_FLAG_OPEN_DRAIN),
                          is_set(flags, GPIO_LINE_FLAG_OPEN_SOURCE),
                          "OpenDrain", "OpenSource", "PushPull")]

\* a variant of Chip::line_info that makes the ioctl again when it failed
line_info_ioctls_Retrying(gen, chip, kernel) ==
    LET ioctl == Sys(IF gen = "v2" THEN GET_LINEINFO_V2 ELSE GET_LINEINFO, chip.fd)
    IN  IF kernel.ok THEN <<ioctl>> ELSE <<ioctl, ioctl>>

\* the ioctls Chip::line_info makes: unsafe_call!(gpio_get_line_info(..))?
line_info_ioctls(gen, chip, kernel) ==
    <<Sys(IF gen = "v2" THEN GET_LINEINFO_V2 ELSE GET_LINEINFO, chip.fd)>>

\* Chip::line_info(line): [result, err, syscalls, info].  kernel is what the
\* ioctl does: it fails, or fills flags, name and consumer.
Chip_line_info(gen, chip, line, kernel) ==
    LET sys == line_info_ioctls(gen, chip, kernel)
        decoded == IF gen = "v2" THEN line_info_v2(kernel.flags)
                   ELSE line_info_v1(kernel.flags)
        name == safe_get_str(kernel.name)
        consumer == safe_get_str(kernel.consumer)
        R(result, err, info) ==
            [result |-> result, err |-> err, syscalls |-> sys, info |-> info]
    IN  IF ~kernel.ok THEN R(Err, kernel.errno, NoLineInfo)
        ELSE IF ~name.ok THEN R(Err, InvalidData, NoLineInfo)
        ELSE IF ~consumer.ok THEN R(Err, InvalidData, NoLineInfo)
        ELSE R(Ok, "", [direction |-> decoded.direction, active |-> decoded.active,
                        edge |-> decoded.edge, used |-> decoded.used,
                        bias |-> decoded.bias, drive |-> decoded.drive,
                        name |-> name.str, consumer |-> consumer.str])

----------------------------------------------------------------------------
(* The Chip calls a caller can make *)

\* the offset sequences requested, each named by its length and order: n
\* offsets counting up from 0, counting down to 0, or repeating two lines
LineSeq(d) ==
    CASE d.order = "Ascending" -> [i \in 1..d.n |-> i - 1]
      [] d.order = "Descending" -> [i \in 1..d.n |-> d.n - i]
      [] d.order = "Repeating" -> [i \in 1..d.n |-> i % 2]

LineCounts ==
    {0, 1, 2}
    \cup {GPIO_LINES_MAX - 1, GPIO_LINES_MAX, GPIO_LINES_MAX + 1}
    \cup {GPIO_LINES_MAX * SizeOfU32 - 1, GPIO_LINES_MAX * SizeOfU32}
    \cup {MaxLines}

LineSeqs ==
    {[n |-> n, order |-> "Ascending"] : n \in LineCounts}
    \cup {[n |-> n, order |-> "Descending"] : n \in {2, GPIO_LINES_MAX}}
    \cup {[n |-> 3, order |-> "Repeating"]}

\* a label of n bytes
Text(n) == [i \in 1..n |-> 97 + (i % 26)]

LabelLens ==
    {0, 2, 3, 6, 7}
    \cup {GPIO_MAX_NAME_SIZE - 1, GPIO_MAX_NAME_SIZE}
    \cup {MaxLabel}

Labels == {Text(n) : n \in LabelLens}

\* the option combinations requested: the defaults, and none of the defaults
Opt(active, edge, bias, drive) ==
    [active |-> active, edge |-> edge, bias |-> bias, drive |-> drive]

Options ==
    {Opt("High", "Disable", "Disable", "PushPull"),
     Opt("Low", "Both", "PullUp", "OpenDrain")}

\* the sequences themselves
LineSeqTable == [d \in LineSeqs |-> LineSeq(d)]

\* what the request ioctl does when it is reached
KernelGrants == {[ok |-> TRUE, errno |-> ""], [ok |-> FALSE, errno |-> "EBUSY"]}

\* what the request ioctl does when the call does not get as far as the ioctl
NoKernel == CHOOSE k \in KernelGrants : ~k.ok

NoNode == [PlainNode EXCEPT !.open_err = "-", !.record = <<>>]

\* the syscalls of a call that are ioctls
Ioctls(syscalls) ==
    {i \in DOMAIN syscalls : syscalls[i].call \in IoctlCalls}

NoChipCall ==
    [op |-> "none", chip |-> 0, node |-> NoNode,
     info |-> [ok |-> FALSE, errno |-> "-"],
     lines |-> [n |-> 0, order |-> "Ascending"], label |-> <<>>,
     active |-> "High", edge |-> "Disable", bias |-> "Disable",
     drive |-> "PushPull", result |-> Ok, err |-> "", syscalls |-> <<>>,
     request |-> NoRequest, fds_before |-> {}, nchips_before |-> 0,
     nrequests_before |-> 0,
     req |-> 0, type |-> "", arg |-> {}, kernel |-> {}, passed |-> {},
     ret |-> {}, event |-> NoEvent, line_info |-> NoLineInfo]

\* the Chips a caller still holds
OpenChips == {c \in DOMAIN chips : chips[c].state = "Open"}

\* the answers of GPIO_GET_CHIPINFO that matter to a call: one when the call
\* does not get as far as the ioctl
InfoFor(r) == IF Ioctls(r.syscalls) = {} THEN {NoInfo} ELSE ChipInfos

\* Chip::new(path), the path being what `node` describes
OpenOf(nodes) ==
    /\ ~panicked
    /\ Len(chips) < MaxChips
    /\ \E node \in nodes :
         \E info \in InfoFor(Chip_new(node, NoInfo, NewFd(fds))) :
             LET r == Chip_new(node, info, NewFd(fds)) IN
             /\ chips' = IF r.result = Ok THEN Append(chips, r.chip) ELSE chips
             /\ fds' = IF r.result = Ok THEN fds \cup {r.chip.fd} ELSE fds
             /\ panicked' = (r.result = Panic)
             /\ last' = [NoChipCall EXCEPT !.op = "new", !.node = node,
                             !.info = info,
                             !.result = r.result, !.err = r.err,
                             !.syscalls = r.syscalls,
                             !.fds_before = fds, !.nchips_before = Len(chips),
                             !.nrequests_before = Len(requests)]
             /\ UNCHANGED <<buildVars, valueVars, requests>>

\* the positions of the close calls in a sequence of system calls
Closes(syscalls) == {i \in DOMAIN syscalls : syscalls[i].call = "close"}

\* a variant of the drop of a Chip that leaves its descriptor open
Chip_drop_Leaking(chip) == <<>>

\* a variant of the drop of a Chip in which the requests made on it share
\* its lifetime: their descriptors are closed with the chip's
Chip_drop_WithRequests(chip) ==
    <<Sys("close", chip.fd)>>
    \o [r \in DOMAIN requests |-> Sys("close", requests[r].fd)]

\* the system calls of the drop of a Chip: of its fields (name, label,
\* num_lines, file) only file: File holds a descriptor, which it closes
Chip_drop(chip) == <<Sys("close", chip.fd)>>

Open == OpenOf(Nodes)

\* drop(chip)
Close ==
    /\ ~panicked
    /\ \E c \in OpenChips :
         /\ chips' = [chips EXCEPT ![c].state = "Closed"]
         /\ fds' = fds \ {Chip_drop(chips[c])[i].fd : i \in Closes(Chip_drop(chips[c]))}
         /\ last' = [NoChipCall EXCEPT !.op = "drop", !.chip = c,
                         !.syscalls = Chip_drop(chips[c]),
                         !.fds_before = fds, !.nchips_before = Len(chips),
                         !.nrequests_before = Len(requests)]
         /\ UNCHANGED <<buildVars, valueVars, requests, panicked>>

\* the state after the request call `op` on chip c has returned r
Requested(op, c, d, o, label, kernel, r) ==
    /\ requests' = IF r.result = Ok THEN Append(requests, r.lv) ELSE requests
    /\ fds' = IF r.result = Ok THEN fds \cup {r.lv.fd} ELSE fds
    /\ panicked' = (r.result = Panic)
    /\ last' = [NoChipCall EXCEPT !.op = op, !.chip = c, !.lines = d,
                    !.label = label, !.active = o.active, !.edge = o.edge,
                    !.bias = o.bias, !.drive = o.drive,
                    !.result = r.result, !.err = r.err, !.syscalls = r.syscalls,
                    !.request = r.request, !.kernel = kernel,
                    !.fds_before = fds, !.nchips_before = Len(chips),
                    !.nrequests_before = Len(requests)]
    /\ UNCHANGED <<buildVars, valueVars, chips>>

\* the kernel answers that matter to a call: one when it makes no ioctl
KernelFor(r) == IF Ioctls(r.syscalls) = {} THEN {NoKernel} ELSE KernelGrants

\* chip.request_output(lines, active, edge, bias, drive, label), lines being
\* LineSeq(d)
RequestOutputOf(seqs, labels, options) ==
    /\ ~panicked
    /\ Len(requests) < MaxRequests
    /\ \E c \in OpenChips, d \in seqs, label \in labels, o \in options :
         LET Call(kernel) ==
                 Chip_request_output(abi, ptr_bytes, chips[c], LineSeqTable[d],
                                     o.active, o.edge, o.bias, o.drive, label,
                                     kernel, NewFd(fds))
         IN  \E kernel \in KernelFor(Call(NoKernel)) :
                 Requested("request_output", c, d, o, label, kernel, Call(kernel))

\* chip.request_input(lines, active, edge, bias, label), lines being LineSeq(d)
RequestInputOf(seqs, labels, options) ==
    /\ ~panicked
    /\ Len(requests) < MaxRequests
    /\ \E c \in OpenChips, d \in seqs, label \in labels, o \in options :
         LET Call(kernel) ==
                 Chip_request_input(abi, ptr_bytes, chips[c], LineSeqTable[d],
                                    o.active, o.edge, o.bias, label, kernel,
                                    NewFd(fds))
         IN  \E kernel \in KernelFor(Call(NoKernel)) :
                 Requested("request_input", c, d, [o EXCEPT !.drive = "PushPull"],
                           label, kernel, Call(kernel))

RequestOutput == RequestOutputOf(LineSeqs, Labels, Options)

RequestInput == RequestInputOf(LineSeqs, Labels, Options)

----------------------------------------------------------------------------
(* The LineValues calls a caller can make on Inputs and Outputs *)

\* the offsets of the requests the kernel has granted: the kernel grants 1 to
\* 64 distinct lines
GrantedLines == {<<1, 3>>, <<7, 2, 5>>, [i \in 1..GPIO_LINES_MAX |-> i - 1]}

\* the request methods return Outputs and Inputs around LineValues::new
GrantedRequests(chip, fd) ==
    {LineValues_new(chip.name, lines, fd, dir) :
         lines \in GrantedLines, dir \in Direction}

\* the requests a caller still holds
HeldRequests == {r \in DOMAIN requests : requests[r].state = "Open"}

\* a failing system call on a descriptor
Fails(errno) ==
    [ok |-> FALSE, errno |-> errno, data |-> GpioHandleData_default,
     lv |-> Values_default]

\* what the get-values ioctl does on an open line descriptor: it fails, or
\* leaves line levels in the structure.  The bytes of v1 are any bytes, past
\* the requested lines too.
KernelGets ==
    {Fails("EIO")}
    \cup {[ok |-> TRUE, errno |-> "", data |-> d, lv |-> v] :
            d \in {GpioHandleData_default,
                   [i \in 0..(GPIOHANDLES_MAX - 1) |-> i % 2],
                   [i \in 0..(GPIOHANDLES_MAX - 1) |-> IF i % 3 = 0 THEN 255 ELSE 0],
                   [i \in 0..(GPIOHANDLES_MAX - 1) |-> 1]},
            v \in {[bits |-> {1}, mask |-> {}]}}

\* what the set-values ioctl does on an open line descriptor
KernelSets == {[ok |-> TRUE, errno |-> ""], [ok |-> FALSE, errno |-> "EPERM"]}

\* what any call does on a descriptor that is closed
BadFd == Fails("EBADF")

\* the T of get_values::<T>()
GetTypes == {"Values", "u8", "u64"}

\* the arguments of set_values: integers and Values
IntArg(bits) == [bits |-> bits, mask |-> {}]

SetArgs ==
    {[type |-> "u8", x |-> IntArg({1})], [type |-> "u8", x |-> IntArg({0, 1, 7})],
     [type |-> "u64", x |-> IntArg({63})], [type |-> "u64", x |-> IntArg(U64)],
     [type |-> "Values", x |-> Values_default],
     [type |-> "Values", x |-> [bits |-> {0, 1}, mask |-> {1}]],
     [type |-> "Values", x |-> [bits |-> {0}, mask |-> {0, 1, 2}]]}

\* a read that returned Ok(n) after leaving the first n bytes of `record` in
\* the buffer; event is the structure after it
ReadOf(record, n) ==
    [ok |-> TRUE, errno |-> "", n |-> n, event |-> read_buffer(record, n)]

\* a read that failed
ReadFails(errno) ==
    [ok |-> FALSE, errno |-> errno, n |-> 0, event |-> GpioLineEvent_default]

\* what read does on the line descriptor: it fails, or returns the number of
\* bytes it left in the buffer: a whole event record, or fewer bytes (none, or
\* a record up to its id or its offset)
Reads(self) ==
    {ReadFails("EAGAIN")}
    \cup {ReadOf([timestamp |-> 5, id |-> id, offset |-> o], event_size(abi)) :
            id \in 0..3, o \in {self.offset[Len(self.offset)], 99}}
    \cup {ReadOf([timestamp |-> 5, id |-> 1, offset |-> self.offset[Len(self.offset)]], n) :
            n \in {0, 12, 16} \ {event_size(abi)}}

BadRead == ReadFails("EBADF")

\* the reads of records for every requested line and of a line not requested
AllReads(self) ==
    {ReadFails("EAGAIN")}
    \cup {ReadOf([timestamp |-> t, id |-> id, offset |-> o], event_size(abi)) :
            t \in {0, 1999999999}, id \in 0..3, o \in Range(self.offset) \cup {99}}

\* the values the unbound `line` of the v1 read_event may stand for
LinesV1 == {0, 1}

\* what GPIO_GET_LINEINFO does: it fails, or fills flags, name and consumer
KernelLineInfos ==
    {[ok |-> FALSE, errno |-> "EINVAL", flags |-> {}, name |-> Zeros(32),
      consumer |-> Zeros(32)],
     [ok |-> TRUE, errno |-> "", flags |-> {}, name |-> Pad(<<255>>, 32),
      consumer |-> Zeros(32)]}
    \cup {[ok |-> TRUE, errno |-> "", flags |-> f, name |-> Pad(<<80, 49>>, 32),
           consumer |-> Pad(<<108, 101, 100>>, 32)] :
            f \in {{}, {0, 1, 2, 3, 5}, {0, 4, 6}, {1, 3, 4, 5, 6, 8}}}

\* the state after a LineValues call `op` on request r has returned res: the
\* descriptors it closed are closed
Answered(op, r, res) ==
    /\ panicked' = (res.result = Panic)
    /\ fds' = fds \ {res.syscalls[i].fd : i \in Closes(res.syscalls)}
    /\ UNCHANGED <<buildVars, valueVars, chips, requests>>

\* request.get_values::<T>()
GetValues ==
    /\ ~panicked
    /\ \E r \in HeldRequests, T \in GetTypes :
         \E kernel \in (IF requests[r].fd \in fds THEN KernelGets ELSE {BadFd}) :
             LET res == LineValues_get_values(abi, requests[r], T, kernel,
                                              overflow_checks) IN
             /\ Answered("get_values", r, res)
             /\ last' = [NoChipCall EXCEPT !.op = "get_values", !.req = r,
                             !.type = T, !.kernel = kernel,
                             !.result = res.result, !.err = res.err,
                             !.syscalls = res.syscalls, !.passed = res.passed,
                             !.ret = res.ret,
                             !.fds_before = fds, !.nchips_before = Len(chips),
                             !.nrequests_before = Len(requests)]

\* outputs.set_values(x) for an x of type arg.type
SetValues ==
    /\ ~panicked
    /\ \E r \in HeldRequests, arg \in SetArgs :
         /\ requests[r].dir = "Output"
         /\ \E kernel \in (IF requests[r].fd \in fds THEN KernelSets ELSE {BadFd}) :
             LET res == LineValues_set_values(abi, requests[r], arg.type, arg.x,
                                              kernel, overflow_checks) IN
             /\ Answered("set_values", r, res)
             /\ last' = [NoChipCall EXCEPT !.op = "set_values", !.req = r,
                             !.type = arg.type, !.arg = arg.x, !.kernel = kernel,
                             !.result = res.result, !.err = res.err,
                             !.syscalls = res.syscalls, !.passed = res.passed,
                             !.fds_before = fds, !.nchips_before = Len(chips),
                             !.nrequests_before = Len(requests)]

\* request.read_event(), the read on request r doing one of outcomes[r]
ReadEventOf(outcomes) ==
    /\ ~panicked
    /\ \E r \in HeldRequests :
         \E read \in (IF requests[r].fd \in fds THEN outcomes[r] ELSE {BadRead}),
            line \in (IF abi = "v2" THEN {0} ELSE LinesV1) :
             LET res == LineValues_read_event(abi, requests[r], read, line) IN
             /\ Answered("read_event", r, res)
             /\ last' = [NoChipCall EXCEPT !.op = "read_event", !.req = r,
                             !.kernel = read, !.arg = line,
                             !.result = res.result, !.err = res.err,
                             !.syscalls = res.syscalls, !.event = res.event,
                             !.fds_before = fds, !.nchips_before = Len(chips),
                             !.nrequests_before = Len(requests)]

ReadEvent == ReadEventOf([r \in DOMAIN requests |-> Reads(requests[r])])

\* request.read_event_async().await, or the future dropped while it waits
ReadEventAsync ==
    /\ ~panicked
    /\ \E r \in HeldRequests :
         \E read \in (IF requests[r].fd \in fds THEN Reads(requests[r]) ELSE {BadRead}),
            cancelled \in BOOLEAN :
             LET res == LineValues_read_event_async(abi, requests[r], read,
                                                    cancelled) IN
             /\ cancelled => /\ read = BadRead \/ ~read.ok
                             /\ requests[r].fd \in fds
             /\ Answered("read_event_async", r, res)
             /\ last' = [NoChipCall EXCEPT !.op = "read_event_async", !.req = r,
                             !.kernel = read,
                             !.result = res.result, !.err = res.err,
                             !.syscalls = res.syscalls, !.event = res.event,
                             !.fds_before = fds, !.nchips_before = Len(chips),
                             !.nrequests_before = Len(requests)]

\* drop(request): the request's File closes its descriptor
DropRequest ==
    /\ ~panicked
    /\ \E r \in HeldRequests :
         /\ requests' = [requests EXCEPT ![r].state = "Dropped"]
         /\ fds' = fds \ {requests[r].fd}
         /\ last' = [NoChipCall EXCEPT !.op = "drop request", !.req = r,
                         !.syscalls = <<Sys("close", requests[r].fd)>>,
                         !.fds_before = fds, !.nchips_before = Len(chips),
                         !.nrequests_before = Len(requests)]
         /\ UNCHANGED <<buildVars, valueVars, chips, panicked>>

\* chip.line_info(line)
LineInfo ==
    /\ ~panicked
    /\ \E c \in OpenChips, line \in {0}, kernel \in KernelLineInfos :
         LET res == Chip_line_info(abi, chips[c], line, kernel) IN
         /\ last' = [NoChipCall EXCEPT !.op = "line_info", !.chip = c,
                         !.kernel = kernel,
                         !.result = res.result, !.err = res.err,
                         !.syscalls = res.syscalls, !.line_info = res.info,
                         !.fds_before = fds, !.nchips_before = Len(chips),
                         !.nrequests_before = Len(requests)]
         /\ UNCHANGED <<buildVars, valueVars, chips, fds, requests, panicked>>

\* chip.name(), chip.label() and chip.num_lines()
Describe ==
    /\ ~panicked
    /\ \E c \in OpenChips :
         /\ last' = [NoChipCall EXCEPT !.op = "describe", !.chip = c,
                         !.ret = [name |-> chips[c].name, label |-> chips[c].label,
                                  num_lines |-> chips[c].num_lines],
                         !.fds_before = fds, !.nchips_before = Len(chips),
                         !.nrequests_before = Len(requests)]
         /\ UNCHANGED <<buildVars, valueVars, chips, fds, requests, panicked>>

----------------------------------------------------------------------------
(* The two texts is_gpiochip_cdev compares, for every record and device *)

\* n bytes '1'
Ones(n) == [i \in 1..n |-> 49]

\* contents of the sysfs file: a line feed at each position 0..15 of the
\* buffer, alone or followed by more, and no line feed in fewer bytes than
\* the buffer holds, in as many and in more
CdevRecords ==
    {Ones(p) \o <<LINE_FEED>> : p \in 0..15}
    \cup {Ones(p) \o <<LINE_FEED, 50, LINE_FEED>> : p \in 0..13}
    \cup {Ones(n) : n \in {0, 5, 16, 17}}

\* the device numbers of the opened file
CdevDevices ==
    {[major |-> major, minor |-> minor] :
         major \in {0, 1, 10, 254, 255, 256, 4095},
         minor \in {0, 1, 10, 255, 256, 257, 511, 4096, 65535, 65536, 524287}}

\* is_gpiochip_cdev from the read of the sysfs file to the text it compares
SysfsText ==
    \E rec \in CdevRecords :
        LET slice == sysfs_slice(sysfs_rdev([PlainNode EXCEPT !.record = rec]))
            text == safe_get_str(slice.bytes)
        IN  /\ last' = [NoChipCall EXCEPT
                            !.op = "sysfs text",
                            !.node = [PlainNode EXCEPT !.record = rec],
                            !.result = IF slice.panic THEN Panic
                                       ELSE IF text.ok THEN Ok ELSE Err,
                            !.err = IF ~slice.panic /\ ~text.ok THEN InvalidData ELSE "",
                            !.ret = text.str]
            /\ UNCHANGED <<buildVars, valueVars, chips, fds, requests, panicked>>

\* is_gpiochip_cdev's format!("{}:{}", rdev >> 8, rdev & 0xFF) for the device
\* number of the file
FileRdev ==
    \E d \in CdevDevices :
        /\ last' = [NoChipCall EXCEPT
                        !.op = "file_rdev",
                        !.node = [PlainNode EXCEPT !.dev = d],
                        !.ret = file_rdev(MakeDev(d.major, d.minor))]
        /\ UNCHANGED <<buildVars, valueVars, chips, fds, requests, panicked>>

----------------------------------------------------------------------------
(* The flag word the request methods build, for every choice of options *)

AllOptions ==
    {Opt(a, e, b, d) : a \in Active, e \in EdgeDetect, b \in Bias, d \in Drive}

\* the flag word of a request of direction dir with the options o in the
\* build for gen
request_flags(gen, dir, o) ==
    IF gen = "v2" THEN request_flags_v2(dir, o.active, o.edge, o.bias, o.drive)
    ELSE request_flags_v1(dir, o.active, o.bias, o.drive)

\* the state after the flag word of a request has been built
FlagsBuilt(op, dir, o) ==
    /\ last' = [NoChipCall EXCEPT !.op = op, !.active = o.active, !.edge = o.edge,
                    !.bias = o.bias, !.drive = o.drive,
                    !.request = [NoRequest EXCEPT
                                     !.flags = request_flags(abi, dir, o)]]
    /\ UNCHANGED <<buildVars, valueVars, chips, fds, requests, panicked>>

\* request_output(lines, active, edge, bias, drive, label) up to its flag word
OutputFlags == \E o \in AllOptions : FlagsBuilt("output flags", "Output", o)

\* request_input(lines, active, edge, bias, label) up to its flag word
InputFlags ==
    \E o \in AllOptions :
        o.drive = "PushPull" /\ FlagsBuilt("input flags", "Input", o)

----------------------------------------------------------------------------
(* The Values calls a caller can make *)

InRangeBits == (0..(LowBits - 1)) \cup {63}
OutOfRangeBits == {64, 65, 128, 255}
BitIds == InRangeBits \cup OutOfRangeBits

\* the integers of width w that are converted
UInts(w) == (SUBSET {0, w - 1}) \cup {UMax(w)}

NoCall == [op |-> "none", bit |-> 0, val |-> FALSE, w |-> 0, int |-> {},
           before |-> Values_default, panic |-> FALSE, ret |-> None, out |-> {}]

VSet(b, v) ==
    LET r == Values_set(values, b, v, overflow_checks) IN
    /\ ~panicked
    /\ values' = r.self
    /\ panicked' = r.panic
    /\ vlast' = [NoCall EXCEPT !.op = "set", !.bit = b, !.val = v,
                               !.before = values, !.panic = r.panic]
    /\ UNCHANGED <<buildVars, chipVars>>

VGet(b) ==
    LET r == Values_get(values, b, overflow_checks) IN
    /\ ~panicked
    /\ panicked' = r.panic
    /\ vlast' = [NoCall EXCEPT !.op = "get", !.bit = b, !.before = values,
                               !.panic = r.panic, !.ret = r.ret]
    /\ UNCHANGED <<buildVars, chipVars, values>>

VFrom(w, i) ==
    /\ ~panicked
    /\ values' = Values_from(w, i)
    /\ vlast' = [NoCall EXCEPT !.op = "from", !.w = w, !.int = i, !.before = values]
    /\ UNCHANGED <<buildVars, chipVars, panicked>>

VInto(w) ==
    /\ ~panicked
    /\ vlast' = [NoCall EXCEPT !.op = "into", !.w = w, !.before = values,
                               !.out = Values_into(w, values)]
    /\ UNCHANGED <<buildVars, chipVars, values, panicked>>

InitValues ==
    /\ overflow_checks \in BOOLEAN
    /\ ptr_bytes = 8
    /\ abi = "v2"
    /\ values = Values_default
    /\ vlast = NoCall
    /\ chips = <<>>
    /\ fds = {}
    /\ requests = <<>>
    /\ last = NoChipCall
    /\ panicked = FALSE

NextValues ==
    \/ \E b \in BitIds, v \in BOOLEAN : VSet(b, v)
    \/ \E b \in BitIds : VGet(b)
    \/ \E w \in Width : \E i \in UInts(w) : VFrom(w, i)
    \/ \E w \in Width : VInto(w)

SpecValues == InitValues /\ [][NextValues]_vars

\* Chip::new and drop(chip).  Neither reads the ABI generation or the size
\* of a reference, so one build stands for all.
Init ==
    /\ overflow_checks = FALSE
    /\ ptr_bytes = 8
    /\ abi = "v2"
    /\ values = Values_default
    /\ vlast = NoCall
    /\ chips = <<>>
    /\ fds = {}
    /\ requests = <<>>
    /\ last = NoChipCall
    /\ panicked = FALSE

Next ==
    \/ Open
    \/ Close

Spec == Init /\ [][Next]_vars

\* Chip::request_output and Chip::request_input on a Chip that Chip::new has
\* returned, in each build
InitRequest ==
    /\ overflow_checks = FALSE
    /\ ptr_bytes \in {4, 8}
    /\ abi \in {"v1", "v2"}
    /\ values = Values_default
    /\ vlast = NoCall
    /\ \E info \in ChipInfos :
         LET r == Chip_new(PlainNode, info, NewFd({})) IN
         /\ r.result = Ok
         /\ chips = <<r.chip>>
         /\ fds = {r.chip.fd}
    /\ requests = <<>>
    /\ last = NoChipCall
    /\ panicked = FALSE

NextRequest ==
    \/ RequestOutput
    \/ RequestInput
    \/ Close

SpecRequest == InitRequest /\ [][NextRequest]_vars

\* the calls on a Chip that Chip::new has returned and on an Inputs or
\* Outputs granted on it; the request methods are called with few arguments
FewLineSeqs == {d \in LineSeqs : d.n \in {1, GPIO_LINES_MAX} /\ d.order = "Ascending"}
FewLabels == {Text(n) : n \in {0, GPIO_MAX_NAME_SIZE - 1}}
FewOptions == {Opt("High", "Disable", "Disable", "PushPull")}

InitLines ==
    /\ overflow_checks = FALSE
    /\ ptr_bytes = 8
    /\ abi \in {"v1", "v2"}
    /\ values = Values_default
    /\ vlast = NoCall
    /\ LET r == Chip_new(PlainNode, ChipInfo(<<103, 49>>, <<112, 105>>, 54), NewFd({})) IN
       /\ r.result = Ok
       /\ chips = <<r.chip>>
       /\ \E lv \in GrantedRequests(r.chip, NewFd({r.chip.fd})) :
            /\ requests = <<lv>>
            /\ fds = {r.chip.fd, lv.fd}
    /\ last = NoChipCall
    /\ panicked = FALSE

NextLines ==
    \/ GetValues
    \/ SetValues
    \/ ReadEvent
    \/ ReadEventAsync
    \/ DropRequest
    \/ LineInfo
    \/ Close
    \/ RequestOutputOf(FewLineSeqs, FewLabels, FewOptions)
    \/ RequestInputOf(FewLineSeqs, FewLabels, FewOptions)

SpecLines == InitLines /\ [][NextLines]_vars

\* the calls that make an ioctl, on the Chip and the request of InitLines
\* and on paths that open and that do not
FewNodes == {PlainNode, [PlainNode EXCEPT !.open_err = "ENOENT"]}

NextCalls ==
    \/ OpenOf(FewNodes)
    \/ LineInfo
    \/ RequestOutputOf(FewLineSeqs, FewLabels, FewOptions)
    \/ RequestInputOf(FewLineSeqs, FewLabels, FewOptions)
    \/ GetValues
    \/ SetValues

SpecCalls == InitLines /\ [][NextCalls]_vars

\* read_event on the LineValues that LineValues::new builds for offset
\* sequences with and without a repeated line
EventLines == {<<1, 3>>, <<7, 2, 5>>, <<1, 3, 1>>, <<4, 4>>}

InitEvent ==
    /\ overflow_checks = FALSE
    /\ ptr_bytes = 8
    /\ abi \in {"v1", "v2"}
    /\ values = Values_default
    /\ vlast = NoCall
    /\ chips = <<>>
    /\ \E offsets \in EventLines, dir \in Direction :
         requests = <<LineValues_new(<<103, 49>>, offsets, 4, dir)>>
    /\ fds = {4}
    /\ last = NoChipCall
    /\ panicked = FALSE

NextEvent ==
    \/ ReadEventOf([r \in DOMAIN requests |-> AllReads(requests[r])])
    \/ DropRequest

SpecEvent == InitEvent /\ [][NextEvent]_vars

\* the life of a Chip: Chip::new on paths that open, that fail and that
\* panic, the calls on a Chip, and its drop
ChipNodes ==
    FewNodes \cup {[PlainNode EXCEPT !.is_chr = FALSE],
                   [PlainNode EXCEPT !.record = <<10>>],
                   [PlainNode EXCEPT !.sysfs_read_err = "EIO"]}

NextChip ==
    \/ OpenOf(ChipNodes)
    \/ Close
    \/ Describe
    \/ LineInfo
    \/ RequestOutputOf(FewLineSeqs, FewLabels, FewOptions)
    \/ RequestInputOf(FewLineSeqs, FewLabels, FewOptions)

SpecChip == Init /\ [][NextChip]_vars

\* the texts is_gpiochip_cdev compares
NextCdev ==
    \/ SysfsText
    \/ FileRdev

SpecCdev == Init /\ [][NextCdev]_vars

\* the flag words of the request methods in each build
InitFlags ==
    /\ overflow_checks = FALSE
    /\ ptr_bytes = 8
    /\ abi \in {"v1", "v2"}
    /\ values = Values_default
    /\ vlast = NoCall
    /\ chips = <<>>
    /\ fds = {}
    /\ requests = <<>>
    /\ last = NoChipCall
    /\ panicked = FALSE

NextFlags ==
    \/ OutputFlags
    \/ InputFlags

SpecFlags == InitFlags /\ [][NextFlags]_vars

----------------------------------------------------------------------------
(* Claims about Chip::request_output and Chip::request_input, checked under
   SpecRequest *)

\* the last call was a request of lines
IsRequest == last.op \in {"request_output", "request_input"}

\* the offsets the last request was called with
LastLines == LineSeqTable[last.lines]

\* the last call ended in the validation error, made no ioctl and left the
\* requests as they were
RejectedLocally ==
    /\ last.result = Err
    /\ last.err = InvalidInput
    /\ Ioctls(last.syscalls) = {}
    /\ Len(requests) = last.nrequests_before

\* C1 (as claimed): RequestOutput and RequestInput called with more than 64
\* offsets return the invalid-input error, issue no ioctl and create no
\* LineRequest, for every length greater than 64.
C1_TooManyOffsetsRejected ==
    (IsRequest /\ last.lines.n > GPIO_LINES_MAX) => RejectedLocally

\* C2 (as claimed): for every offset sequence of length N in 1..64 and every
\* label of at most 31 bytes, the request passes local validation without
\* abort, issues the request ioctl with num_lines = N and the first N offset
\* slots equal to the sequence, and, when granted, returns a LineRequest whose
\* lines are the sequence in the given order.
C2_ValidRequestIsIssued ==
    (IsRequest /\ last.lines.n \in 1..GPIO_LINES_MAX /\ Len(last.label) <= 31) =>
        /\ last.result # Panic
        /\ ~(last.result = Err /\ last.err = InvalidInput)
        /\ Cardinality(Ioctls(last.syscalls)) = 1
        /\ last.request.num_lines = last.lines.n
        /\ SubSeq(last.request.offsets, 1, last.lines.n) = LastLines
        /\ last.result = Ok =>
               /\ Len(requests) = last.nrequests_before + 1
               /\ requests[Len(requests)].offset = LastLines

\* C3 (as claimed), for requests whose offsets fill the offsets array: a
\* label of 0 to 31 bytes passes validation, is stored in the 32-byte consumer
\* field as its bytes followed by NUL, and the request ioctl is then issued.
C3_LabelStoredNulTerminated ==
    (IsRequest /\ last.lines.n = GPIO_LINES_MAX /\ Len(last.label) <= 31) =>
        /\ last.result # Panic
        /\ ~(last.result = Err /\ last.err = InvalidInput)
        /\ Cardinality(Ioctls(last.syscalls)) = 1
        /\ last.request.consumer = Pad(last.label, GPIO_MAX_NAME_SIZE)

\* C4 (as claimed): a label of 32 bytes or more makes the request return the
\* invalid-input error without issuing the request ioctl and without creating
\* a LineRequest.
C4_LongLabelRejected ==
    (IsRequest /\ Len(last.label) >= GPIO_MAX_NAME_SIZE) => RejectedLocally

----------------------------------------------------------------------------
(* Claims about Chip::new, checked under Spec *)

\* the last call was Chip::new on a character device that opens and whose
\* sysfs `dev` file exists and reads
OpenedCharDevice ==
    /\ last.op = "new"
    /\ last.node.open_err = "" /\ last.node.lstat_err = ""
    /\ last.node.is_chr /\ last.node.name_utf8 /\ last.node.sysfs_is_file
    /\ last.node.sysfs_open_err = "" /\ last.node.sysfs_read_err = ""

\* the first line of the sysfs record: its bytes before the first line feed
RecordLine(rec) ==
    IF \E i \in DOMAIN rec : rec[i] = LINE_FEED
    THEN SubSeq(rec, 1, lf_pos(rec))
    ELSE rec

\* the last call left the Chips and the descriptors as they were
NoChipCreated ==
    /\ Len(chips) = last.nchips_before
    /\ fds = last.fds_before

\* C5 (as claimed): Open on a character device whose sysfs record does not
\* equal the file's "<major>:<minor>" fails with a validation error, issues
\* no GET_CHIP_INFO ioctl and creates no Chip.
C5_MismatchRejected ==
    (OpenedCharDevice /\ RecordLine(last.node.record) # DevText(last.node.dev)) =>
        /\ last.result = Err
        /\ last.err \in {InvalidInput, InvalidData, Other}
        /\ Ioctls(last.syscalls) = {}
        /\ NoChipCreated

\* C6: Open on a character device whose sysfs record is exactly the file's
\* "<major>:<minor>" followed by a line feed passes validation and, only
\* after the validation's system calls, issues exactly one GET_CHIP_INFO
\* ioctl; when the ioctl succeeds and name and label are valid text, Open
\* returns an Open Chip carrying the reported name, label and line count.
C6_MatchOpens ==
    (OpenedCharDevice /\ last.node.record = DevText(last.node.dev) \o <<LINE_FEED>>) =>
        /\ last.result # Panic
        /\ Cardinality(Ioctls(last.syscalls)) = 1
        /\ \A i \in Ioctls(last.syscalls) :
               /\ last.syscalls[i].call = GET_CHIPINFO
               /\ \A j \in DOMAIN last.syscalls :
                      last.syscalls[j].call \in {"lstat", "stat", "read"} => j < i
        /\ (last.info.ok /\ Utf8Valid(last.info.name) /\ Utf8Valid(last.info.label)) =>
               /\ last.result = Ok
               /\ Len(chips) = last.nchips_before + 1
               /\ chips[Len(chips)].state = "Open"
               /\ chips[Len(chips)].name = TrimNul(last.info.name)
               /\ chips[Len(chips)].label = TrimNul(last.info.label)
               /\ chips[Len(chips)].num_lines = last.info.lines
               /\ chips[Len(chips)].fd \in fds

\* C6 witness: Chip::new on 254:1 with the record "254:1\n" has returned the
\* Chip "g1" with label "pi" and 54 lines.
C6_Witness ==
    /\ OpenedCharDevice
    /\ last.node.dev = [major |-> 254, minor |-> 1]
    /\ last.node.record = <<50, 53, 52, 58, 49, 10>>
    /\ last.result = Ok
    /\ chips[Len(chips)] = [name |-> <<103, 49>>, label |-> <<112, 105>>,
                            num_lines |-> 54, fd |-> chips[Len(chips)].fd,
                            state |-> "Open"]

\* C7: Open on a path that opens read-write but is not a character device
\* fails with the invalid-input error and performs no ioctl; the descriptor
\* opened for the attempt is closed and no Chip exists afterwards.
C7_NotCharDeviceRejected ==
    (last.op = "new" /\ last.node.open_err = "" /\ last.node.lstat_err = ""
                     /\ ~last.node.is_chr) =>
        /\ last.result = Err
        /\ last.err = InvalidInput
        /\ Ioctls(last.syscalls) = {}
        /\ \E i, j \in DOMAIN last.syscalls :
               /\ i < j
               /\ last.syscalls[i].call = "open"
               /\ last.syscalls[j] = Sys("close", last.syscalls[i].fd)
        /\ NoChipCreated

\* C7 witness: Chip::new has been called on a regular file that has a sysfs
\* `dev` file of its name, while a Chip was open, and has returned the error.
C7_Witness ==
    /\ last.op = "new" /\ last.node.open_err = "" /\ ~last.node.is_chr
    /\ last.node.sysfs_is_file
    /\ last.result = Err
    /\ OpenChips # {}

----------------------------------------------------------------------------
(* Claims about LineValues::get_values and set_values, checked under
   SpecLines *)

\* the request the last call was made on, and the number of its lines
LastRequest == requests[last.req]
LastN == Len(LastRequest.offset)

\* C11: under v1, get_values on a request of N lines returns, when the ioctl
\* succeeds, a Values whose bit i is 1 exactly when kernel byte i is nonzero
\* for i in 0..N-1, whose mask is exactly the bits 0..N-1, and whose bits and
\* mask from N on are zero.
C11_GetValuesV1 ==
    (last.op = "get_values" /\ abi = "v1" /\ last.kernel.ok) =>
        /\ last.result = Ok
        /\ last.type = "Values" =>
               /\ last.ret.bits = {i \in 0..(LastN - 1) : last.kernel.data[i] # 0}
               /\ last.ret.mask = 0..(LastN - 1)
               /\ \A i \in U64 : i >= LastN => i \notin last.ret.bits \cup last.ret.mask

\* C11 witness: get_values::<Values>() on the lines [7, 2, 5] has returned
\* bits 0b010 and mask 0b111 from kernel bytes that are 1 at every odd
\* position, past the three lines too.
C11_Witness ==
    /\ last.op = "get_values" /\ abi = "v1" /\ last.type = "Values"
    /\ LastRequest.offset = <<7, 2, 5>>
    /\ last.kernel.ok /\ last.kernel.data[1] = 1 /\ last.kernel.data[63] = 1
    /\ last.result = Ok
    /\ last.ret = [bits |-> {1}, mask |-> {0, 1, 2}]

\* bit i of the argument of the last set_values is masked and set; an integer
\* argument masks every bit of its width
ArgMaskedAndSet(i) ==
    IF last.type = "Values" THEN i \in last.arg.bits \cap last.arg.mask
    ELSE i \in last.arg.bits /\ i < BitsOf(last.type)

\* C12: under v1, set_values on a request of N lines hands the kernel a byte
\* array in which byte i is 1 when bit i of the argument is masked and set
\* and 0 otherwise, for i in 0..N-1, and every byte from N on is 0; for the
\* offsets [1, 3] and set_values(0b10) the first two bytes are [0, 1].
C12_SetValuesV1 ==
    (last.op = "set_values" /\ abi = "v1") =>
        /\ last.result # Panic
        /\ Cardinality(Ioctls(last.syscalls)) = 1
        /\ \A i \in 0..(GPIOHANDLES_MAX - 1) :
               last.passed[i] = IF i < LastN /\ ArgMaskedAndSet(i) THEN 1 ELSE 0
        /\ (LastRequest.offset = <<1, 3>> /\ last.type = "u8" /\ last.arg.bits = {1}) =>
               (last.passed[0] = 0 /\ last.passed[1] = 1)

\* C12 witness: set_values(0b10u8) on the lines [1, 3] has handed the kernel
\* the bytes [0, 1, 0, ...], and a Values with bit 0 set but not masked has
\* been set on 64 lines.
C12_Witness ==
    /\ last.op = "set_values" /\ abi = "v1" /\ last.result = Ok
    /\ \/ /\ LastRequest.offset = <<1, 3>> /\ last.type = "u8" /\ last.arg.bits = {1}
          /\ last.passed[0] = 0 /\ last.passed[1] = 1 /\ last.passed[2] = 0
       \/ /\ LastN = GPIO_LINES_MAX /\ last.type = "Values"
          /\ last.arg = [bits |-> {0, 1}, mask |-> {1}]
          /\ last.passed[0] = 0 /\ last.passed[1] = 1

\* C13 (as claimed): under v2, set_values called with a fixed-width integer
\* on a request of N lines hands the kernel the caller's bits unchanged and a
\* mask whose set positions are exactly 0..N-1; for the offsets [1, 3] and
\* set_values(0b10) the kernel receives bits = 0b10 and mask = 0b11.
C13_SetValuesV2Mask ==
    (last.op = "set_values" /\ abi = "v2" /\ last.type \in IntTypes) =>
        /\ last.passed.bits = last.arg.bits
        /\ last.passed.mask = 0..(LastN - 1)

\* the line offsets and the chip name a request was granted with
GivenAtRequestTime(req, given, name) ==
    /\ Outputs_lines(req) = given
    /\ Outputs_chip_name(req) = name
    /\ \A i \in DOMAIN given : line_bit(req, given[i]) = Some(i - 1)

\* C16: every request, held or dropped, lists the offsets it was granted with
\* in their order and names the chip it was requested on, bit i standing for
\* offsets[i]; and no call (get_values, set_values, read_event, the drop of
\* the chip or any other) changes what lines() and chip_name() return.
C16_LinesAndChipNameFixed ==
    /\ [](\A r \in DOMAIN requests :
             \E given \in GrantedLines :
                 GivenAtRequestTime(requests[r], given, chips[1].name))
    /\ [][\A r \in DOMAIN requests :
             /\ r \in DOMAIN requests'
             /\ Outputs_lines(requests'[r]) = Outputs_lines(requests[r])
             /\ Outputs_chip_name(requests'[r]) = Outputs_chip_name(requests[r])]_vars

\* C16 witness: a read_event has failed on a request for lines 7, 2, 5 whose
\* chip is closed, and the request still lists 7, 2, 5 and names the chip.
C16_Witness ==
    /\ last.op = "read_event" /\ last.result = Err
    /\ chips[1].state = "Closed"
    /\ Outputs_lines(requests[last.req]) = <<7, 2, 5>>
    /\ Outputs_chip_name(requests[last.req]) = chips[1].name
    /\ chips[1].name # <<>>

\* C17: a read_event_async that completed, with data or with an error, made
\* no close call and left every descriptor as it was; the drop of a request
\* makes exactly one close call, on the request's descriptor; and the
\* descriptor of a held request is closed by no step but the drop of that
\* request, a future dropped while it waits (not a completed read) apart.
C17_CompletedAsyncReadKeepsFd ==
    /\ []((last.op = "read_event_async" /\ last.result \in {Ok, Err}) =>
              /\ Closes(last.syscalls) = {}
              /\ fds = last.fds_before)
    /\ [](last.op = "drop request" =>
              last.syscalls = <<Sys("close", requests[last.req].fd)>>)
    /\ [][\A r \in HeldRequests :
              (requests[r].fd \in fds /\ requests[r].fd \notin fds') =>
                  \/ last'.op = "drop request" /\ last'.req = r
                  \/ last'.result = Cancelled]_vars

\* C17 witness: a read_event_async has returned a rising-edge event and the
\* request's descriptor is still open.
C17_Witness ==
    /\ last.op = "read_event_async" /\ last.result = Ok
    /\ last.event.edge = "Rising"
    /\ last.syscalls = <<Sys("read", requests[last.req].fd)>>
    /\ requests[last.req].fd \in fds

\* C18: the drop of a Chip closes the descriptor of no held request; a
\* get_values, set_values or read_event made when no Chip is open, on a
\* request whose descriptor was open, makes its one system call on that
\* descriptor and is not answered EBADF; the drop of a request closes the
\* descriptor of no open Chip; and a request method has only ever run on a
\* Chip that is open.
C18_RequestOutlivesChip ==
    /\ [][last'.op = "drop" =>
              \A r \in HeldRequests :
                  requests[r].fd \in fds => requests[r].fd \in fds']_vars
    /\ []((/\ last.op \in {"get_values", "set_values", "read_event"}
           /\ OpenChips = {}
           /\ requests[last.req].fd \in last.fds_before) =>
              /\ last.syscalls \in {<<Sys(call, requests[last.req].fd)>> :
                                        call \in IoctlCalls \cup {"read"}}
              /\ last.err # "EBADF"
              /\ requests[last.req].fd \in fds)
    /\ [][last'.op = "drop request" =>
              \A c \in OpenChips : chips[c].fd \in fds /\ chips[c].fd \in fds']_vars
    /\ [](last.op \in {"request_output", "request_input"} =>
              chips[last.chip].state = "Open")

\* C18 witness: get_values has returned values on a request whose Chip is
\* closed.
C18_Witness ==
    /\ last.op = "get_values" /\ last.result = Ok
    /\ OpenChips = {} /\ Len(chips) = 1
    /\ last.syscalls # <<>>
    /\ requests[last.req].fd \in fds

\* what a kernel that fills in values only for masked positions leaves of
\* the line levels `levels` in the structure it was passed
FilledWhereMasked(passed, levels) ==
    [bits |-> levels \cap passed.mask, mask |-> passed.mask]

\* C23 (as claimed): in the v2 build get_values passes the get-values ioctl a
\* mask that selects every requested position 0..N-1, so that with a kernel
\* that fills in values only for masked positions bit i of the result is the
\* level of offsets[i] for every i in 0..N-1.
C23_GetValuesV2Mask ==
    (last.op = "get_values" /\ abi = "v2" /\ Ioctls(last.syscalls) # {}) =>
        /\ last.passed.mask = 0..(LastN - 1)
        /\ \A i \in 0..(LastN - 1) :
               (i \in FilledWhereMasked(last.passed, last.kernel.lv.bits).bits)
                   <=> (i \in last.kernel.lv.bits)

----------------------------------------------------------------------------
(* Claims about the ioctls of a call, checked under SpecCalls *)

\* the last call made an ioctl and the kernel failed it
IoctlFailed ==
    /\ Ioctls(last.syscalls) # {}
    /\ IF last.op = "new" THEN ~last.info.ok ELSE ~last.kernel.ok

\* the errno the kernel failed the ioctl of the last call with
IoctlErrno == IF last.op = "new" THEN last.info.errno ELSE last.kernel.errno

\* C19: a call of Chip::new, line_info, request_input, request_output,
\* get_values or set_values makes at most one ioctl; when the kernel fails
\* that ioctl the call returns that errno, makes no ioctl after it and leaves
\* nothing behind: no Chip, no request, no LineInfo, no values, no descriptor.
C19_NoRetry ==
    (last.op \in {"new", "line_info", "request_output", "request_input",
                  "get_values", "set_values"}) =>
        /\ Cardinality(Ioctls(last.syscalls)) <= 1
        /\ IoctlFailed =>
               /\ last.result = Err /\ last.err = IoctlErrno
               /\ \A i \in DOMAIN last.syscalls :
                      (\E j \in Ioctls(last.syscalls) : i > j) =>
                          last.syscalls[i].call = "close"
               /\ Len(chips) = last.nchips_before
               /\ Len(requests) = last.nrequests_before
               /\ fds = last.fds_before
               /\ last.ret = {} /\ last.line_info = NoLineInfo

\* C19 witness: the kernel has failed the ioctl of a line_info with EINVAL
\* and the call has returned EINVAL after that one ioctl.
C19_Witness ==
    /\ last.op = "line_info" /\ ~last.kernel.ok
    /\ last.result = Err /\ last.err = "EINVAL"
    /\ Len(last.syscalls) = 1 /\ Ioctls(last.syscalls) = {1}

----------------------------------------------------------------------------
(* Claims about LineValues::read_event, checked under SpecLines *)

\* the edge codes of the build
EdgeCodes ==
    IF abi = "v2" THEN {GPIO_LINE_EVENT_RISING_EDGE, GPIO_LINE_EVENT_FALLING_EDGE}
    ELSE {GPIOEVENT_EVENT_RISING_EDGE, GPIOEVENT_EVENT_FALLING_EDGE}

\* the last call returned the error err and no Event
FailedWith(err) == last.result = Err /\ last.err = err /\ last.event = NoEvent

\* C20: read_event returns InvalidData and no Event when the record read has
\* an edge code that is neither rising nor falling, or (v2, whose record
\* carries a line offset) an offset that is not one of the requested lines;
\* when the read itself fails it returns the errno of the read, which is not
\* InvalidData, and no Event.
C20_ReadEventInvalidData ==
    (last.op = "read_event") =>
        IF ~last.kernel.ok THEN FailedWith(last.kernel.errno) /\ last.err # InvalidData
        ELSE /\ last.kernel.event.id \notin EdgeCodes => FailedWith(InvalidData)
             /\ (abi = "v2" /\ last.kernel.event.offset
                                   \notin Range(Outputs_lines(requests[last.req]))) =>
                    FailedWith(InvalidData)

\* C20 witness: a v2 read_event has read a record for a requested line with
\* the edge code 3 and has returned InvalidData.
C20_Witness ==
    /\ last.op = "read_event" /\ abi = "v2"
    /\ last.kernel.ok /\ last.kernel.event.id = 3
    /\ last.kernel.event.offset \in Range(Outputs_lines(requests[last.req]))
    /\ FailedWith(InvalidData)

\* C25 (as claimed): a read_event makes at most one read, and when the read
\* left fewer bytes than one event record in the buffer (none included) the
\* call returns no Event.
C25_ShortReadGivesNoEvent ==
    (last.op = "read_event") =>
        /\ Len(last.syscalls) <= 1
        /\ (last.kernel.ok /\ last.kernel.n < event_size(abi)) =>
               last.result # Ok /\ last.event = NoEvent

\* C26 (as claimed): after the future of read_event_async was dropped while
\* its read was pending, the descriptor of the request is still open and the
\* call closed nothing.
C26_CancelledReadKeepsFd ==
    (last.op = "read_event_async" /\ last.result = Cancelled) =>
        /\ requests[last.req].fd \in fds
        /\ Closes(last.syscalls) = {}

----------------------------------------------------------------------------
(* Claims about the Event of read_event, checked under SpecEvent *)

\* the last call was a read_event that read a whole record with a rising or
\* falling edge code
ReadEdgeRecord ==
    /\ last.op = "read_event" /\ last.kernel.ok
    /\ last.kernel.n = event_size(abi)
    /\ last.kernel.event.id \in EdgeCodes

\* the Event of the last call has the edge and the time of the record read
EdgeAndTimeOfRecord ==
    /\ last.result = Ok
    /\ last.event.edge = (IF last.kernel.event.id = 1 THEN "Rising" ELSE "Falling")
    /\ last.event.time.secs * NANOS_PER_SEC + last.event.time.nanos
           = last.kernel.event.timestamp
    /\ last.event.time.nanos \in 0..(NANOS_PER_SEC - 1)

\* the positions, counted from 0, at which the request lists the raw offset
\* of the record read
PositionsOfRecord ==
    {i - 1 : i \in {j \in DOMAIN requests[last.req].offset :
                        requests[last.req].offset[j] = last.kernel.event.offset}}

\* C21 (as claimed): for a record whose raw offset equals offsets[i] the Event
\* has line = i, for every i, also when the offset occurs more than once in
\* the request, and has the edge and the time of the record.
C21_EventLineEveryPosition ==
    (ReadEdgeRecord /\ abi = "v2") =>
        \A i \in PositionsOfRecord : last.event.line = i /\ EdgeAndTimeOfRecord

\* C21 (amended): in the v2 build, for a record whose raw offset is one of the
\* requested offsets the Event has the last position at which the request
\* lists that offset (its only position when the offsets are distinct); in
\* both builds the edge is Rising for code 1 and Falling for code 2 and the
\* time is the epoch plus the record's nanoseconds.
C21_EventLineLastPosition ==
    ReadEdgeRecord =>
        /\ (abi = "v2" /\ PositionsOfRecord # {}) =>
               /\ last.event.line \in PositionsOfRecord
               /\ \A i \in PositionsOfRecord : i <= last.event.line
               /\ EdgeAndTimeOfRecord
        /\ abi = "v1" => EdgeAndTimeOfRecord

\* C21 witness: a v2 read_event on a request for the lines 7, 2, 5 has read a
\* falling edge on line 5 at 1999999999 ns and returned position 2 with
\* 1 s 999999999 ns.
C21_Witness ==
    /\ ReadEdgeRecord /\ abi = "v2"
    /\ requests[last.req].offset = <<7, 2, 5>>
    /\ last.kernel.event = [timestamp |-> 1999999999, id |-> 2, offset |-> 5]
    /\ last.event = [line |-> 2, edge |-> "Falling",
                     time |-> [secs |-> 1, nanos |-> 999999999]]

----------------------------------------------------------------------------
(* Claims about the life of a Chip, checked under SpecChip *)

\* every descriptor a call opened it also closed, later in the call
OpenedAreClosed(syscalls) ==
    \A i \in DOMAIN syscalls :
        (syscalls[i].call = "open" /\ syscalls[i].fd >= 0) =>
            \E j \in DOMAIN syscalls :
                j > i /\ syscalls[j] = Sys("close", syscalls[i].fd)

\* C22: a Chip is Open or Closed; the open descriptors are exactly those of
\* the Open Chips, one each; line_info, request_input, request_output, name,
\* label and num_lines have only run on an Open Chip; the only change of a
\* Chip is from Open to Closed, which closes its descriptor; and a Chip::new
\* that failed added no Chip, closed what it opened and left the descriptors
\* as they were.
C22_ChipOpenThenClosed ==
    /\ [](/\ \A c \in DOMAIN chips : chips[c].state \in {"Open", "Closed"}
          /\ fds = {chips[c].fd : c \in OpenChips}
          /\ \A c, d \in OpenChips : chips[c].fd = chips[d].fd => c = d)
    /\ [](last.op \in {"line_info", "request_input", "request_output", "describe"} =>
              chips[last.chip].state = "Open")
    /\ [][\A c \in DOMAIN chips :
              /\ c \in DOMAIN chips'
              /\ chips'[c] # chips[c] =>
                     /\ chips[c].state = "Open"
                     /\ chips'[c] = [chips[c] EXCEPT !.state = "Closed"]
                     /\ chips[c].fd \notin fds']_vars
    /\ []((last.op = "new" /\ last.result # Ok) =>
              /\ Len(chips) = last.nchips_before
              /\ fds = last.fds_before
              /\ OpenedAreClosed(last.syscalls))

\* C22 witness: a Chip has been opened and dropped, and a Chip::new after it
\* has failed with ENOTTY at its ioctl: one Closed Chip and no open
\* descriptor.
C22_Witness ==
    /\ last.op = "new" /\ last.result = Err /\ last.err = "ENOTTY"
    /\ Len(chips) = 1 /\ chips[1].state = "Closed"
    /\ fds = {}

----------------------------------------------------------------------------
(* Claims about the texts is_gpiochip_cdev compares, checked under SpecCdev *)

\* the bytes of the record read into the 16-byte buffer that precede its
\* first line feed: all of them when it has none
FirstLine(rec) == RecordLine(SubSeq(rec, 1, IF Len(rec) < 16 THEN Len(rec) ELSE 16))

\* C24 (as claimed): for every record and every position 0..15 of its first
\* line feed, and for a record without one, the sysfs text that is compared
\* is exactly the bytes of the record before the first line feed, and the
\* call does not abort.
C24_SysfsTextIsFirstLine ==
    (last.op = "sysfs text") =>
        /\ last.result # Panic
        /\ last.ret = FirstLine(last.node.record)

\* C27 (as claimed): for every device number the text built from rdev >> 8
\* and rdev & 0xFF is "<major>:<minor>" of that device number.
C27_FileRdevIsMajorMinor ==
    (last.op = "file_rdev") => last.ret = DevText(last.node.dev)

----------------------------------------------------------------------------
(* Claims about the flag word of a request, checked under SpecFlags *)

\* the bits of the build for a direction, active-low, a bias and a drive
DirBit(dir) ==
    IF abi = "v2"
    THEN (IF dir = "Output" THEN GPIO_LINE_FLAG_OUTPUT ELSE GPIO_LINE_FLAG_INPUT)
    ELSE (IF dir = "Output" THEN GPIOHANDLE_REQUEST_OUTPUT ELSE GPIOHANDLE_REQUEST_INPUT)

ActiveLowBit ==
    IF abi = "v2" THEN GPIO_LINE_FLAG_ACTIVE_LOW ELSE GPIOHANDLE_REQUEST_ACTIVE_LOW

BiasBit(bias) ==
    IF abi = "v2"
    THEN CASE bias = "PullUp" -> GPIO_LINE_FLAG_BIAS_PULL_UP
           [] bias = "PullDown" -> GPIO_LINE_FLAG_BIAS_PULL_DOWN
           [] bias = "Disable" -> GPIO_LINE_FLAG_BIAS_DISABLED
    ELSE CASE bias = "PullUp" -> GPIOHANDLE_REQUEST_BIAS_PULL_UP
           [] bias = "PullDown" -> GPIOHANDLE_REQUEST_BIAS_PULL_DOWN
           [] bias = "Disable" -> GPIOHANDLE_REQUEST_BIAS_DISABLE

OpenDrainBit ==
    IF abi = "v2" THEN GPIO_LINE_FLAG_OPEN_DRAIN ELSE GPIOHANDLE_REQUEST_OPEN_DRAIN

OpenSourceBit ==
    IF abi = "v2" THEN GPIO_LINE_FLAG_OPEN_SOURCE ELSE GPIOHANDLE_REQUEST_OPEN_SOURCE

DriveBit(drive) ==
    CASE drive = "OpenDrain" -> OpenDrainBit
      [] drive = "OpenSource" -> OpenSourceBit
      [] OTHER -> {}

\* C14: in the flag word of request_output, for every combination of the
\* other options, drive = OpenDrain sets the open-drain bit and not the
\* open-source bit, drive = OpenSource sets the open-source bit and not the
\* open-drain bit, and drive = PushPull sets neither.
C14_DriveFlags ==
    (last.op = "output flags") =>
        LET flags == last.request.flags IN
        /\ last.drive = "OpenDrain" =>
               (OpenDrainBit \subseteq flags /\ OpenSourceBit \cap flags = {})
        /\ last.drive = "OpenSource" =>
               (OpenSourceBit \subseteq flags /\ OpenDrainBit \cap flags = {})
        /\ last.drive = "PushPull" =>
               (OpenDrainBit \cup OpenSourceBit) \cap flags = {}

\* C14 witness: the v2 flag word of an active-low, both-edges, pull-down,
\* open-source output has been built and holds the open-source bit.
C14_Witness ==
    /\ last.op = "output flags" /\ abi = "v2"
    /\ last.drive = "OpenSource" /\ last.active = "Low" /\ last.edge = "Both"
    /\ last.bias = "PullDown"
    /\ 7 \in last.request.flags /\ 6 \notin last.request.flags

\* C15 (as claimed): in both generations the request reflects the direction
\* and every selected option: request_output sets the output bit and never
\* the input bit, request_input the input bit and never the output bit nor
\* a drive bit, active-low is set exactly when active = Low, the bias bits
\* encode exactly the selected bias, a selected edge detection (Rising,
\* Falling, Both) is encoded in the request, and no bit is set that the
\* caller did not select.
C15_OptionsEncoded ==
    (last.op \in {"output flags", "input flags"}) =>
        LET flags == last.request.flags
            dir == IF last.op = "output flags" THEN "Output" ELSE "Input"
            other == IF dir = "Output" THEN "Input" ELSE "Output"
            o == Opt(last.active, last.edge, last.bias, last.drive)
            edgeless == request_flags(abi, dir, [o EXCEPT !.edge = "Disable"])
        IN
        /\ DirBit(dir) \subseteq flags /\ DirBit(other) \cap flags = {}
        /\ dir = "Input" => (OpenDrainBit \cup OpenSourceBit) \cap flags = {}
        /\ (ActiveLowBit \subseteq flags) <=> (last.active = "Low")
        /\ \A b \in Bias : (BiasBit(b) \subseteq flags) <=> (b = last.bias)
        /\ last.edge # "Disable" => flags # edgeless
        /\ edgeless = DirBit(dir) \cup BiasBit(last.bias) \cup DriveBit(last.drive)
                      \cup (IF last.active = "Low" THEN ActiveLowBit ELSE {})

----------------------------------------------------------------------------
(* Claims about the Values codec, checked under SpecValues *)

\* C8: for every Values state, every bit position b in 0..63 and every
\* boolean v, after Values::set(b, v) the call Values::get(b) returns Some(v)
\* (and neither call panics).
C8_SetThenGet ==
    (vlast.op = "set" /\ vlast.bit \in 0..63) =>
        /\ ~vlast.panic
        /\ Values_get(values, vlast.bit, overflow_checks)
               = [panic |-> FALSE, ret |-> Some(vlast.val)]

\* C8 witness: set(63, false) has just cleared a bit that was set and masked,
\* and set(0, true) has just set a bit of a Values that had it unmasked.
C8_Witness ==
    \/ /\ vlast.op = "set" /\ vlast.bit = 63 /\ ~vlast.val
       /\ 63 \in vlast.before.bits /\ 63 \notin values.bits /\ ~panicked
    \/ /\ vlast.op = "set" /\ vlast.bit = 0 /\ vlast.val
       /\ 0 \notin vlast.before.mask /\ 0 \in values.bits /\ ~panicked

\* C9 (as claimed): for every bit index b with 64 <= b <= 255 and every Values
\* state, Values::set(b, v) leaves bits and mask unchanged and Values::get(b)
\* returns None, without arithmetic overflow or abort.
C9_OutOfRangeIsNoOp ==
    /\ (vlast.op = "set" /\ vlast.bit >= 64) =>
           (~vlast.panic /\ values = vlast.before)
    /\ (vlast.op = "get" /\ vlast.bit >= 64) =>
           (~vlast.panic /\ vlast.ret = None)

\* C10: for every unsigned integer I of width w in {8, 16, 32, 64},
\* Values::from(I) has bits = I and mask = 2^w - 1 (all ones of that width and
\* zero above it), and converting it back to width w yields I.
C10_FromRoundTrip ==
    (vlast.op = "from") =>
        /\ values.bits = vlast.int
        /\ values.mask = 0..(vlast.w - 1)
        /\ Values_into(vlast.w, values) = vlast.int

\* C10 witness: a u8 with its top and bottom bits set has been converted over
\* a Values that held wider contents before.
C10_Witness ==
    /\ vlast.op = "from" /\ vlast.w = 8 /\ vlast.int = {0, 7}
    /\ vlast.before.mask = 0..63
    /\ values.mask = 0..7

=============================================================================
